---- MODULE Spec2Model ----
(***************************************************************************)
(* Model of the OMX launcher's self-update procedure (src/main.py):        *)
(* update_files and its helpers download_url_to_file, safe_copy,           *)
(* backup_file, restore_backup, try_download_optional_hash and             *)
(* test_import_module_from_path, called from run_launcher.                 *)
(*                                                                         *)
(* The state is the part of the filesystem the updater touches, the        *)
(* remote origin, the position of update_files (pc), the helper it is in   *)
(* (call), its local variables (loc) and the exception in flight (exc).    *)
(* The field call.was (the destination's content when the helper was       *)
(* entered) is history too.                                                *)
(* Every file operation that can fail (open, write, rename, read) has a    *)
(* failing branch; a process kill is possible at every position.           *)
(* The records g and prev are history only: written, never read, by the    *)
(* steps.                                                                  *)
(***************************************************************************)
EXTENDS Integers, Sequences, FiniteSets, TLC

\* ------------------------------------------------------------ bounds
MaxContent == 2
MaxCycles == 2
MaxFaults == 1
MaxLines == 2

\* ------------------------------------------------------------ file contents
\* What os.path.exists distinguishes: no file at the path.
Absent == 0
\* A file that was opened for writing and does not hold all its bytes yet.
Partial == -1
Contents == 1..MaxContent
Vals == {Absent, Partial} \cup Contents

\* ------------------------------------------------------------ paths and urls
REQ_FILE == "requirements.txt"
app_orig == "app.py"
main_orig == "main.py"
req_path == "update/requirements.txt"
app_path == "update/app.py"
main_path == "update/main.py"
REQ_URL == "origin/requirements.txt"
APP_URL == "origin/app.py"
MAIN_URL == "origin/main.py"
\* backup_file / restore_backup: bak = path + ".bak"
Bak(path) == path \o ".bak"
\* safe_copy: tmp = dst + ".tmp"
Tmp(dst) == dst \o ".tmp"
\* the file tempfile.mkstemp creates in the staging directory
MkTmp == "update/<mkstemp>"

Working == {REQ_FILE, app_orig, main_orig}
Sources == {app_orig, main_orig}
Staged == {req_path, app_path, main_path}
Urls == {REQ_URL, APP_URL, MAIN_URL}
Paths == Working \cup Staged \cup {Bak(p) : p \in Sources}
           \cup {Tmp(p) : p \in Working} \cup {MkTmp}

\* hashlib.sha256: a digest names a content, and is not a content
Sha256(c) == <<"sha256", c>>

VARIABLES
    fs,         \* path -> content of the file there (Absent: no file)
    updateDir,  \* whether the directory UPDATE_DIR exists
    remote,     \* the revision at the head of the origin's branch
    FLAGS,      \* the runtime flags set by the CLI
    pc,         \* position of run_launcher / update_files
    call,       \* the helper update_files is in, and where
    ret,        \* the value the last helper returned
    loc,        \* local variables of update_files
    exc,        \* the exception in flight
    outcome,    \* how the update cycle ended
    g,          \* history of this cycle (never read by the program)
    prev,       \* history of the previous cycle (never read by the program)
    cycles,     \* update cycles run so far
    faultsLeft  \* file-operation failures and kills the environment may still cause

vars == <<fs, updateDir, remote, FLAGS, pc, call, ret, loc, exc, outcome,
          g, prev, cycles, faultsLeft>>

NoCall == [fn |-> "none"]
NoExc == "none"
\* the classes `except Exception` catches
ExceptionClasses == {"RuntimeError", "OSError"}

loc0 ==
    [force |-> FALSE, internet |-> FALSE, req_ok |-> FALSE, app_ok |-> FALSE,
     main_ok |-> FALSE, apply_app |-> FALSE, apply_main |-> FALSE,
     app_backup |-> FALSE, main_backup |-> FALSE, applied_any |-> FALSE]

g0 == [pre |-> [p \in Paths |-> Absent], preDir |-> FALSE, ev |-> {},
       rejected |-> {}]

\* prev: the revision the origin served during the previous cycle, when that
\* cycle ran with connectivity to its commit; NoPrev (no revision) otherwise
NoPrev == Absent
prev0 == NoPrev

\* The three urls name files of one branch of one repository: each url serves
\* its file as of the head revision, and a file's content at revision r is r.
RemoteContent(url) == remote

exists(path) == fs[path] # Absent

\* The launcher starts on a disk that holds each working file at revision 1 or
\* not at all, and nothing else.  File operations can fail, and the process can
\* be killed, in the runs that start from the complete installation.
Init ==
    /\ fs \in {f \in [Paths -> Vals] :
                 /\ \A p \in Working : f[p] \in {Absent, 1}
                 /\ \A p \in Paths \ Working : f[p] = Absent}
    /\ \/ faultsLeft = 0
       \/ faultsLeft = MaxFaults /\ \A p \in Working : fs[p] = 1
    /\ updateDir = FALSE
    /\ remote = 1
    /\ FLAGS = [no_update |-> FALSE, force_update |-> FALSE]
    /\ pc = "idle"
    /\ call = NoCall
    /\ ret = FALSE
    /\ loc = loc0
    /\ exc = NoExc
    /\ outcome = "none"
    /\ g = g0
    /\ prev = prev0
    /\ cycles = 0

Log(e) == [g EXCEPT !.ev = @ \cup {e}]
Return(v) == call' = NoCall /\ ret' = v
InMain == call = NoCall
\* a file operation fails (or the process is killed): the environment's choice
Fault == faultsLeft > 0 /\ faultsLeft' = faultsLeft - 1
NoFault == faultsLeft' = faultsLeft

\* ------------------------------------------------------------ download_url_to_file
\* The comparison of line 169: the destination is left alone when its digest
\* could be read and equals the digest of the downloaded bytes.
DownloadIdentical(existing_hash, tmp_hash) ==
    existing_hash # <<>> /\ tmp_hash = existing_hash

\* file_sha256(path): the digest, or None (here <<>>) when the read fails.
file_sha256(path, readOk) == IF readOk THEN Sha256(fs[path]) ELSE <<>>

CallDownload(url, dest) ==
    call' = [fn |-> "download_url_to_file", url |-> url, dest |-> dest,
             at |-> "L155", data |-> Absent, was |-> fs[dest]]

\* lines 153-162: the request; any error or a status other than 200 returns False
download_fetch ==
    /\ call.fn = "download_url_to_file" /\ call.at = "L155"
    /\ \/ /\ Return(FALSE)
          /\ g' = Log(<<"dl_fail", call.url>>)
       \/ /\ call' = [call EXCEPT !.at = "L166", !.data = RemoteContent(call.url)]
          /\ g' = g
          /\ ret' = ret
    /\ UNCHANGED <<fs, updateDir, remote, FLAGS, pc, loc, exc, outcome, prev, cycles, faultsLeft>>

\* lines 164-172: skip when identical, else mkstemp in the destination's directory
download_compare ==
    /\ call.fn = "download_url_to_file" /\ call.at = "L166"
    /\ \E readOk \in BOOLEAN :
         /\ IF readOk \/ ~exists(call.dest) THEN NoFault ELSE Fault
         /\ IF exists(call.dest)
               /\ DownloadIdentical(file_sha256(call.dest, readOk), Sha256(call.data))
            THEN /\ Return(TRUE)
                 /\ g' = Log(<<"dl_identical", call.url>>)
                 /\ fs' = fs
            ELSE /\ fs' = [fs EXCEPT ![MkTmp] = Partial]
                 /\ call' = [call EXCEPT !.at = "L174"]
                 /\ g' = g
                 /\ ret' = ret
    /\ UNCHANGED <<updateDir, remote, FLAGS, pc, loc, exc, outcome, prev, cycles>>

\* lines 173-174, and 178-186 when the write raises: the temporary file is removed
download_write ==
    /\ call.fn = "download_url_to_file" /\ call.at = "L174"
    /\ \/ /\ fs' = [fs EXCEPT ![MkTmp] = call.data]
          /\ call' = [call EXCEPT !.at = "L175"]
          /\ g' = g
          /\ ret' = ret
          /\ NoFault
       \/ /\ fs' = [fs EXCEPT ![MkTmp] = Absent]
          /\ Return(FALSE)
          /\ g' = Log(<<"dl_write_fail", call.url>>)
          /\ Fault
    /\ UNCHANGED <<updateDir, remote, FLAGS, pc, loc, exc, outcome, prev, cycles>>

\* line 175 os.replace(tmp_path, dest), and 178-186 when it raises
download_replace ==
    /\ call.fn = "download_url_to_file" /\ call.at = "L175"
    /\ \/ /\ fs' = [fs EXCEPT ![call.dest] = fs[MkTmp], ![MkTmp] = Absent]
          /\ Return(TRUE)
          /\ g' = Log(<<"dl_written", call.url>>)
          /\ NoFault
       \/ /\ fs' = [fs EXCEPT ![MkTmp] = Absent]
          /\ Return(FALSE)
          /\ g' = Log(<<"dl_write_fail", call.url>>)
          /\ Fault
    /\ UNCHANGED <<updateDir, remote, FLAGS, pc, loc, exc, outcome, prev, cycles>>

\* ------------------------------------------------------------ safe_copy
\* variant: the copy is written over the destination itself
SafeCopyInPlace(dst) == dst

\* line 314: the temporary file safe_copy writes for destination dst
SafeCopyTmp(dst) == Tmp(dst)

CallSafeCopy(src, dst) ==
    call' = [fn |-> "safe_copy", src |-> src, dst |-> dst, at |-> "L315",
             was |-> fs[dst]]

\* line 315 shutil.copyfile(src, tmp), first half: both files are opened, which
\* truncates tmp; a failure to open either returns False with nothing written
safe_copy_open ==
    /\ call.fn = "safe_copy" /\ call.at = "L315"
    /\ \/ /\ exists(call.src)
          /\ fs' = [fs EXCEPT ![SafeCopyTmp(call.dst)] = Partial]
          /\ call' = [call EXCEPT !.at = "L315w"]
          /\ g' = [g EXCEPT !.ev = @ \cup
                     {<<"tmp_write", call.src, call.dst>>}
                     \cup (IF exists(SafeCopyTmp(call.dst))
                           THEN {<<"tmp_reused", call.dst>>} ELSE {})]
          /\ ret' = ret
          /\ NoFault
       \/ /\ Return(FALSE)
          /\ g' = Log(<<"copy_fail", call.src, call.dst>>)
          /\ fs' = fs
          /\ Fault
    /\ UNCHANGED <<updateDir, remote, FLAGS, pc, loc, exc, outcome, prev, cycles>>

\* line 315, second half: the bytes are written, or the write raises and the
\* except clause returns False (tmp is left as it is)
safe_copy_write ==
    /\ call.fn = "safe_copy" /\ call.at = "L315w"
    /\ \/ /\ fs' = [fs EXCEPT ![SafeCopyTmp(call.dst)] = fs[call.src]]
          /\ call' = [call EXCEPT !.at = "L316"]
          /\ g' = g
          /\ ret' = ret
          /\ NoFault
       \/ /\ Return(FALSE)
          /\ g' = Log(<<"copy_fail", call.src, call.dst>>)
          /\ fs' = fs
          /\ Fault
    /\ UNCHANGED <<updateDir, remote, FLAGS, pc, loc, exc, outcome, prev, cycles>>

\* line 316 os.replace(tmp, dst)
safe_copy_replace ==
    /\ call.fn = "safe_copy" /\ call.at = "L316"
    /\ \/ /\ fs' = [fs EXCEPT ![call.dst] = fs[SafeCopyTmp(call.dst)],
                              ![SafeCopyTmp(call.dst)] = Absent]
          /\ Return(TRUE)
          /\ g' = Log(<<"rename", call.src, call.dst>>)
          /\ NoFault
       \/ /\ Return(FALSE)
          /\ g' = Log(<<"copy_fail", call.src, call.dst>>)
          /\ fs' = fs
          /\ Fault
    /\ UNCHANGED <<updateDir, remote, FLAGS, pc, loc, exc, outcome, prev, cycles>>

\* ------------------------------------------------------------ backup_file
\* variant: the backup is taken of the staged file
BackupSourceStaged(path) == IF path = app_orig THEN app_path ELSE main_path

\* line 327: shutil.copyfile(path, bak) copies the working file itself
BackupSource(path) == path

CallBackup(path) ==
    call' = [fn |-> "backup_file", path |-> path, at |-> "L324"]

\* lines 324-327: None when the path is missing; else copyfile opens bak for
\* writing (truncating it), or fails to and returns None
backup_open ==
    /\ call.fn = "backup_file" /\ call.at = "L324"
    /\ IF ~exists(call.path)
       THEN /\ Return(FALSE)
            /\ UNCHANGED <<fs, g, faultsLeft>>
       ELSE \/ /\ fs' = [fs EXCEPT ![Bak(call.path)] = Partial]
               /\ call' = [call EXCEPT !.at = "L327"]
               /\ UNCHANGED <<g, ret, faultsLeft>>
            \/ /\ Return(FALSE)
               /\ g' = Log(<<"backup_fail", call.path>>)
               /\ fs' = fs
               /\ Fault
    /\ UNCHANGED <<updateDir, remote, FLAGS, pc, loc, exc, outcome, prev, cycles>>

\* line 327, the write itself: returns bak, or None when the write raises
backup_write ==
    /\ call.fn = "backup_file" /\ call.at = "L327"
    /\ \/ /\ fs' = [fs EXCEPT ![Bak(call.path)] = fs[BackupSource(call.path)]]
          /\ Return(TRUE)
          /\ g' = Log(<<"backup_ok", call.path>>)
          /\ NoFault
       \/ /\ Return(FALSE)
          /\ g' = Log(<<"backup_fail", call.path>>)
          /\ fs' = fs
          /\ Fault
    /\ UNCHANGED <<updateDir, remote, FLAGS, pc, loc, exc, outcome, prev, cycles>>

\* ------------------------------------------------------------ try_download_optional_hash
\* What one digest url answers: a 64-hex token (the digest of some content), or
\* nothing usable (request error, status other than 200, no token).
NoDigest == <<>>
DigestAnswers == {NoDigest} \cup {Sha256(c) : c \in Contents}

\* variant: a digest at either url that matches is enough
HashVerdictAnyMatch(answers, destExists, local) ==
    LET found == {i \in 1..Len(answers) : answers[i] # NoDigest}
    IN  \/ found = {}
        \/ destExists /\ local # <<>> /\ \E i \in found : local = answers[i]

\* lines 197-228: the first url that yields a token decides; with none, True.
\* local is the digest of dest, or <<>> when dest cannot be read.
HashVerdict(answers, destExists, local) ==
    LET found == {i \in 1..Len(answers) : answers[i] # NoDigest}
    IN  IF found = {} THEN TRUE
        ELSE LET first == CHOOSE i \in found : \A j \in found : i <= j
             IN  /\ destExists
                 /\ local # <<>>
                 /\ local = answers[first]

\* ------------------------------------------------------------ test_import_module_from_path
\* What exec_module of the candidate does: runs through, raises an Exception
\* (caught at line 361, returns False), or raises a BaseException such as
\* SystemExit, which `except Exception` does not catch.
LoadResults == {"ok", "Exception", "SystemExit"}

\* ------------------------------------------------------------ run_launcher, update_files
\* variant: the flag is not looked at
NoUpdateSkipNever(no_update, force) == FALSE

\* line 371: the cycle is skipped when updates are disabled and not forced
NoUpdateSkip(no_update, force) == no_update /\ ~force

\* variant: the test for the local requirements.txt is inverted
NoInternetReturnInverted(internet, reqExists) == ~internet /\ reqExists

\* lines 394-401: the cycle ends early without internet and without a local
\* requirements.txt
NoInternetReturn(internet, reqExists) == ~internet /\ ~reqExists

\* variant: the working copy's existence counts with internet too
ApplyDecisionNoNetCheck(ok, force, internet, origExists) ==
    ok \/ force \/ origExists

\* variant: force does not count
ApplyDecisionNoForce(ok, force, internet, origExists) ==
    ok \/ (~internet /\ origExists)

\* lines 429-430: whether a source file is to be applied
ApplyDecision(ok, force, internet, origExists) ==
    ok \/ force \/ (~internet /\ origExists)

\* variant: the rollback restores nothing
RestoreGuardNever(backup) == FALSE

\* variant: the rollback restores every file that has a '.bak' file
RestoreGuardAlways(backup) == TRUE

\* lines 470, 472: a file is restored when backup_file returned a path for it
RestoreGuard(backup) == backup

\* variant: run_launcher catches OSError only
LauncherCatchesOSError(e) == e = "OSError"

\* line 571: `except Exception` in run_launcher
LauncherCatches(e) == e \in ExceptionClasses

Goto(l) == pc' = l

\* lines 568-570: run_launcher calls update_files(force=FLAGS["force_update"])
run_launcher_call ==
    /\ pc = "idle" /\ cycles < MaxCycles
    /\ \E nu \in BOOLEAN, fu \in BOOLEAN :
         /\ FLAGS' = [no_update |-> nu, force_update |-> fu]
         /\ loc' = [loc0 EXCEPT !.force = fu]
    /\ g' = [g EXCEPT !.pre = fs, !.preDir = updateDir, !.ev = {}]
    /\ Goto("L371")
    /\ UNCHANGED <<fs, updateDir, remote, call, ret, exc, outcome, prev, cycles, faultsLeft>>

\* lines 371-373
update_no_update_check ==
    /\ pc = "L371" /\ InMain
    /\ IF NoUpdateSkip(FLAGS.no_update, loc.force)
       THEN Goto("done") /\ outcome' = "disabled"
       ELSE Goto("L375") /\ outcome' = outcome
    /\ UNCHANGED <<fs, updateDir, remote, FLAGS, call, ret, loc, exc, g, prev, cycles, faultsLeft>>

\* line 375 os.makedirs(UPDATE_DIR, exist_ok=True), outside every try block
update_makedirs ==
    /\ pc = "L375" /\ InMain
    /\ \/ /\ updateDir' = TRUE
          /\ g' = IF updateDir THEN g ELSE Log(<<"mkdir">>)
          /\ Goto("L393")
          /\ exc' = exc
          /\ NoFault
       \/ /\ ~updateDir
          /\ exc' = "OSError"
          /\ Goto("L571")
          /\ UNCHANGED <<updateDir, g>>
          /\ Fault
    /\ UNCHANGED <<fs, remote, FLAGS, call, ret, loc, outcome, prev, cycles>>

\* line 393 internet = check_internet()
update_check_internet ==
    /\ pc = "L393" /\ InMain
    /\ \E b \in BOOLEAN :
         /\ loc' = [loc EXCEPT !.internet = b]
         /\ g' = IF b THEN g ELSE Log(<<"no_internet">>)
    /\ Goto("L394")
    /\ UNCHANGED <<fs, updateDir, remote, FLAGS, call, ret, exc, outcome, prev, cycles, faultsLeft>>

\* lines 394-401: without internet and without a local requirements.txt, return
update_no_internet ==
    /\ pc = "L394" /\ InMain
    /\ IF NoInternetReturn(loc.internet, exists(REQ_FILE))
       THEN Goto("L476") /\ outcome' = "skipped_no_network"
       ELSE Goto("L405") /\ outcome' = outcome
    /\ UNCHANGED <<fs, updateDir, remote, FLAGS, call, ret, loc, exc, g, prev, cycles, faultsLeft>>

\* lines 404-406
update_req_download ==
    /\ pc = "L405" /\ InMain
    /\ IF loc.internet
       THEN CallDownload(REQ_URL, req_path) /\ Goto("L406r")
       ELSE call' = call /\ Goto("L410")
    /\ UNCHANGED <<fs, updateDir, remote, FLAGS, ret, loc, exc, outcome, g, prev, cycles, faultsLeft>>

\* line 406, the assignment of the result
update_req_downloaded ==
    /\ pc = "L406r" /\ InMain
    /\ loc' = [loc EXCEPT !.req_ok = ret]
    /\ Goto("L410")
    /\ UNCHANGED <<fs, updateDir, remote, FLAGS, call, ret, exc, outcome, g, prev, cycles, faultsLeft>>

\* lines 410-412
update_req_local ==
    /\ pc = "L410" /\ InMain
    /\ loc' = [loc EXCEPT !.req_ok = @ \/ exists(REQ_FILE)]
    /\ Goto("L414")
    /\ UNCHANGED <<fs, updateDir, remote, FLAGS, call, ret, exc, outcome, g, prev, cycles, faultsLeft>>

\* lines 414-417
update_req_apply ==
    /\ pc = "L414" /\ InMain
    /\ IF loc.req_ok /\ exists(req_path)
       THEN CallSafeCopy(req_path, REQ_FILE) /\ Goto("L416r")
       ELSE call' = call /\ Goto("L423")
    /\ UNCHANGED <<fs, updateDir, remote, FLAGS, ret, loc, exc, outcome, g, prev, cycles, faultsLeft>>

\* line 416: the result of safe_copy is not looked at
update_req_applied ==
    /\ pc = "L416r" /\ InMain
    /\ Goto("L423")
    /\ UNCHANGED <<fs, updateDir, remote, FLAGS, call, ret, loc, exc, outcome, g, prev, cycles, faultsLeft>>

\* lines 421-425
update_app_download ==
    /\ pc = "L423" /\ InMain
    /\ IF loc.internet
       THEN CallDownload(APP_URL, app_path) /\ Goto("L425r")
       ELSE call' = call /\ Goto("L429")
    /\ UNCHANGED <<fs, updateDir, remote, FLAGS, ret, loc, exc, outcome, g, prev, cycles, faultsLeft>>

\* lines 425-426: app_ok is assigned, main.py is downloaded whatever app_ok is
update_main_download ==
    /\ pc = "L425r" /\ InMain
    /\ loc' = [loc EXCEPT !.app_ok = ret]
    /\ CallDownload(MAIN_URL, main_path)
    /\ Goto("L426r")
    /\ UNCHANGED <<fs, updateDir, remote, FLAGS, ret, exc, outcome, g, prev, cycles, faultsLeft>>

\* line 426, the assignment of the result
update_main_downloaded ==
    /\ pc = "L426r" /\ InMain
    /\ loc' = [loc EXCEPT !.main_ok = ret]
    /\ Goto("L429")
    /\ UNCHANGED <<fs, updateDir, remote, FLAGS, call, ret, exc, outcome, g, prev, cycles, faultsLeft>>

\* lines 429-430
update_apply_decision ==
    /\ pc = "L429" /\ InMain
    /\ loc' = [loc EXCEPT
                 !.apply_app = ApplyDecision(loc.app_ok, loc.force, loc.internet,
                                             exists(app_orig)),
                 !.apply_main = ApplyDecision(loc.main_ok, loc.force, loc.internet,
                                              exists(main_orig))]
    /\ Goto("L435")
    /\ UNCHANGED <<fs, updateDir, remote, FLAGS, call, ret, exc, outcome, g, prev, cycles, faultsLeft>>

\* lines 435, 436: x_backup = backup_file(x_orig) if os.path.exists(x_orig) else None
update_backup(at, orig, field, next) ==
    /\ pc = at /\ InMain
    /\ IF exists(orig)
       THEN CallBackup(orig) /\ Goto(at \o "r") /\ loc' = loc
       ELSE call' = call /\ Goto(next) /\ loc' = [loc EXCEPT ![field] = FALSE]
    /\ UNCHANGED <<fs, updateDir, remote, FLAGS, ret, exc, outcome, g, prev, cycles, faultsLeft>>

update_backed_up(at, field, next) ==
    /\ pc = at \o "r" /\ InMain
    /\ loc' = [loc EXCEPT ![field] = ret]
    /\ Goto(next)
    /\ UNCHANGED <<fs, updateDir, remote, FLAGS, call, ret, exc, outcome, g, prev, cycles, faultsLeft>>

\* lines 441-442, 445-446: the staged file is copied over the working file
update_apply(at, apply, staged, orig, next) ==
    /\ pc = at /\ InMain
    /\ IF apply /\ exists(staged)
       THEN /\ CallSafeCopy(staged, orig)
            /\ Goto(at \o "r")
            /\ g' = Log(<<"apply", orig>>)
       ELSE call' = call /\ Goto(next) /\ g' = g
    /\ UNCHANGED <<fs, updateDir, remote, FLAGS, ret, loc, exc, outcome, prev, cycles, faultsLeft>>

\* lines 443, 447: applied_any = True, whatever safe_copy returned
update_applied(at, next) ==
    /\ pc = at \o "r" /\ InMain
    /\ loc' = [loc EXCEPT !.applied_any = TRUE]
    /\ Goto(next)
    /\ UNCHANGED <<fs, updateDir, remote, FLAGS, call, ret, exc, outcome, g, prev, cycles, faultsLeft>>

\* lines 451-454, 455-458: the optional digest check of a working file
update_verify_hash(at, url, orig, next) ==
    /\ pc = at /\ InMain
    /\ IF loc.internet /\ exists(orig)
       THEN \E answers \in [1..2 -> DigestAnswers], readOk \in BOOLEAN :
              /\ IF readOk THEN NoFault ELSE Fault
              /\ IF HashVerdict(answers, exists(orig), file_sha256(orig, readOk))
                 THEN /\ Goto(next)
                      /\ g' = Log(<<"hash_ok", orig>>)
                      /\ exc' = exc
                 ELSE /\ exc' = "RuntimeError"
                      /\ g' = Log(<<"hash_fail", orig>>)
                      /\ Goto("L467")
       ELSE Goto(next) /\ UNCHANGED <<exc, g, faultsLeft>>
    /\ UNCHANGED <<fs, updateDir, remote, FLAGS, call, ret, loc, outcome, prev, cycles>>

\* lines 461-463: the import test of the working app.py
update_import_test ==
    /\ pc = "L461" /\ InMain
    /\ IF exists(app_orig)
       THEN \E r \in LoadResults :
              CASE r = "ok" ->
                     /\ Goto("L466")
                     /\ g' = Log(<<"import_ok", fs[app_orig]>>)
                     /\ exc' = exc
                [] r = "Exception" ->
                     /\ exc' = "RuntimeError"
                     /\ g' = Log(<<"import_fail", fs[app_orig]>>)
                     /\ Goto("L467")
                [] r = "SystemExit" ->
                     /\ exc' = "SystemExit"
                     /\ g' = Log(<<"import_exit", fs[app_orig]>>)
                     /\ Goto("L476")
       ELSE Goto("L466") /\ UNCHANGED <<exc, g>>
    /\ UNCHANGED <<fs, updateDir, remote, FLAGS, call, ret, loc, outcome, prev, cycles, faultsLeft>>

\* line 466
update_commit ==
    /\ pc = "L466" /\ InMain
    /\ outcome' = "committed"
    /\ Goto("L476")
    /\ UNCHANGED <<fs, updateDir, remote, FLAGS, call, ret, loc, exc, g, prev, cycles, faultsLeft>>

\* variant: a restore that failed ends the rollback
AfterRestoreAbort(restored, next) == IF restored THEN next ELSE "L475"

\* lines 471, 473: where update_files goes on after restore_backup; its result
\* is not looked at
AfterRestore(restored, next) == next

\* lines 467-473 with restore_backup (334-344): if x_backup, restore x_orig from
\* x_orig + ".bak" when that exists; the result of safe_copy is not looked at.
\* The backup may have been removed from outside since it was written.
update_restore(at, backup, orig, next) ==
    /\ pc = at /\ InMain
    /\ IF RestoreGuard(backup)
       THEN \/ /\ exists(Bak(orig))
               /\ CallSafeCopy(Bak(orig), orig)
               /\ Goto(at \o "r")
               /\ g' = Log(<<"restore", orig>>)
               /\ fs' = fs
               /\ NoFault
            \/ /\ ~exists(Bak(orig))
               /\ call' = call
               /\ Goto(AfterRestore(FALSE, next))
               /\ g' = Log(<<"restore_nobak", orig>>)
               /\ fs' = fs
               /\ NoFault
            \/ /\ exists(Bak(orig))
               /\ fs' = [fs EXCEPT ![Bak(orig)] = Absent]
               /\ call' = call
               /\ Goto(AfterRestore(FALSE, next))
               /\ g' = Log(<<"restore_nobak", orig>>)
               /\ Fault
       ELSE call' = call /\ Goto(next) /\ g' = g /\ fs' = fs /\ NoFault
    /\ UNCHANGED <<updateDir, remote, FLAGS, ret, loc, exc, outcome, prev, cycles>>

update_restored(at, next) ==
    /\ pc = at \o "r" /\ InMain
    /\ Goto(AfterRestore(ret, next))
    /\ UNCHANGED <<fs, updateDir, remote, FLAGS, call, ret, loc, exc, outcome, g, prev, cycles, faultsLeft>>

\* lines 474-475: the exception is raised again after the rollback
update_reraise ==
    /\ pc = "L475" /\ InMain
    /\ g' = Log(<<"rollback">>)
    /\ Goto("L476")
    /\ UNCHANGED <<fs, updateDir, remote, FLAGS, call, ret, loc, exc, outcome, prev, cycles, faultsLeft>>

\* lines 476-480: finally; then update_files returns, or the exception leaves it
update_finally ==
    /\ pc = "L476" /\ InMain
    /\ IF exc = NoExc THEN Goto("done") ELSE Goto("L571")
    /\ UNCHANGED <<fs, updateDir, remote, FLAGS, call, ret, loc, exc, outcome, g, prev, cycles, faultsLeft>>

\* lines 569-573: run_launcher logs an Exception and goes on; anything else
\* leaves run_launcher
launcher_except ==
    /\ pc = "L571" /\ InMain
    /\ outcome' = IF LauncherCatches(exc) THEN "raised" ELSE "exit"
    /\ Goto("done")
    /\ UNCHANGED <<fs, updateDir, remote, FLAGS, call, ret, loc, exc, g, prev, cycles, faultsLeft>>

\* the process is killed: nothing more is written, the files stay as they are
Kill ==
    /\ pc \notin {"idle", "done"}
    /\ Goto("done")
    /\ call' = NoCall
    /\ outcome' = "killed"
    /\ Fault
    /\ g' = Log(<<"killed">>)
    /\ UNCHANGED <<fs, updateDir, remote, FLAGS, ret, loc, exc, prev, cycles>>

\* History kept from cycle to cycle: the staged contents that the cycle now
\* over copied onto a working file (lines 441-446), that a check refused (lines
\* 451-463) and that the rollback took back (lines 467-475), each with the
\* check that refused it.
Rejected ==
    IF outcome = "raised" /\ <<"rollback">> \in g.ev
    THEN {<<p, fs[IF p = app_orig THEN app_path ELSE main_path], "digest">> :
            p \in {q \in Sources :
                     /\ <<"rename", IF q = app_orig THEN app_path ELSE main_path, q>> \in g.ev
                     /\ <<"hash_fail", q>> \in g.ev}}
         \cup
         {<<app_orig, c, "import">> :
            c \in {d \in Contents :
                     /\ <<"rename", app_path, app_orig>> \in g.ev
                     /\ <<"import_fail", d>> \in g.ev
                     /\ d = fs[app_path]}}
    ELSE {}

\* the launcher is started again
Relaunch ==
    /\ pc = "done"
    /\ Goto("idle")
    /\ prev' = IF loc.internet /\ outcome = "committed" THEN remote ELSE NoPrev
    /\ loc' = loc0 /\ exc' = NoExc /\ outcome' = "none" /\ ret' = FALSE
    /\ g' = [g0 EXCEPT !.rejected = g.rejected \cup Rejected]
    /\ FLAGS' = [no_update |-> FALSE, force_update |-> FALSE]
    /\ cycles' = cycles + 1
    /\ UNCHANGED <<fs, updateDir, remote, call, faultsLeft>>

\* the origin publishes another version of one file, between two cycles
Publish ==
    /\ pc = "idle" /\ cycles < MaxCycles
    /\ \E c \in Contents :
         /\ c # remote
         /\ remote' = c
    /\ UNCHANGED <<fs, updateDir, FLAGS, pc, call, ret, loc, exc, outcome, g, prev, cycles, faultsLeft>>

Next ==
    \/ run_launcher_call
    \/ update_no_update_check
    \/ update_makedirs
    \/ update_check_internet
    \/ update_no_internet
    \/ update_req_download
    \/ update_req_downloaded
    \/ update_req_local
    \/ update_req_apply
    \/ update_req_applied
    \/ update_app_download
    \/ update_main_download
    \/ update_main_downloaded
    \/ update_apply_decision
    \/ update_backup("L435", app_orig, "app_backup", "L436")
    \/ update_backed_up("L435", "app_backup", "L436")
    \/ update_backup("L436", main_orig, "main_backup", "L441")
    \/ update_backed_up("L436", "main_backup", "L441")
    \/ update_apply("L441", loc.apply_app, app_path, app_orig, "L445")
    \/ update_applied("L441", "L445")
    \/ update_apply("L445", loc.apply_main, main_path, main_orig, "L451")
    \/ update_applied("L445", "L451")
    \/ update_verify_hash("L451", APP_URL, app_orig, "L455")
    \/ update_verify_hash("L455", MAIN_URL, main_orig, "L461")
    \/ update_import_test
    \/ update_commit
    \/ update_restore("L467", loc.app_backup, app_orig, "L472")
    \/ update_restored("L467", "L472")
    \/ update_restore("L472", loc.main_backup, main_orig, "L475")
    \/ update_restored("L472", "L475")
    \/ update_reraise
    \/ update_finally
    \/ launcher_except
    \/ download_fetch
    \/ download_compare
    \/ download_write
    \/ download_replace
    \/ safe_copy_open
    \/ safe_copy_write
    \/ safe_copy_replace
    \/ backup_open
    \/ backup_write
    \/ Kill
    \/ Relaunch
    \/ Publish

Spec == Init /\ [][Next]_vars

\* ------------------------------------------------------------ vocabulary of the properties
Ev(e) == e \in g.ev
Done == pc = "done"
\* update_files ran to its end: it returned or raised, the process was not killed
Finished == Done /\ outcome # "killed"

StagedOf(orig) == IF orig = app_orig THEN app_path
                  ELSE IF orig = main_orig THEN main_path ELSE req_path
UrlOf(orig) == IF orig = app_orig THEN APP_URL
               ELSE IF orig = main_orig THEN MAIN_URL ELSE REQ_URL

DownloadOk(url) == Ev(<<"dl_identical", url>>) \/ Ev(<<"dl_written", url>>)
DownloadFailed(url) == Ev(<<"dl_fail", url>>) \/ Ev(<<"dl_write_fail", url>>)
\* the staged file was renamed over the working file in this cycle
Overwritten(orig) == Ev(<<"rename", StagedOf(orig), orig>>)
\* a write (temporary file or rename) of staged content for the working file
WroteStaged(orig) == Ev(<<"tmp_write", StagedOf(orig), orig>>) \/ Overwritten(orig)
HashFailed == \E p \in Sources : Ev(<<"hash_fail", p>>)
ImportFailed == \E c \in Contents : Ev(<<"import_fail", c>>)
VerificationFailed == HashFailed \/ ImportFailed
\* a safety check of this cycle has given its verdict, pass or fail
CheckDone ==
    \/ VerificationFailed
    \/ \E p \in Sources : Ev(<<"hash_ok", p>>)
    \/ \E c \in Contents : Ev(<<"import_ok", c>>)

\* The outcomes the specification names, read off how update_files ends: the
\* early return of line 401, the normal end after line 466 with or without a
\* file applied, and the exception raised again at line 475 after the rollback.
skipped_no_network == Finished /\ outcome = "skipped_no_network"
updated == Finished /\ outcome = "committed" /\ loc.applied_any
no_update_needed == Finished /\ outcome = "committed" /\ ~loc.applied_any
rolled_back == Finished /\ outcome = "raised" /\ Ev(<<"rollback">>)

\* ------------------------------------------------------------ C1
\* C1 (as claimed): after a cycle that ends in a rollback, each of app.py and
\* main.py has exactly the content, or the absence, it had before the call.
C1_RollbackRestoresPreState ==
    rolled_back => \A p \in Sources : fs[p] = g.pre[p]

C3_AtomicWrite ==
    /\ \A d \in Working \cup Staged : fs[d] # Partial
    /\ call.fn = "safe_copy" =>
          /\ fs[call.dst] = call.was
          /\ SafeCopyTmp(call.dst) # call.dst
    /\ call.fn = "download_url_to_file" => fs[call.dest] = call.was

\* a kill between "write temp" and "rename": the temporary file is complete,
\* the working file is as before
C3_Witness ==
    /\ outcome = "killed"
    /\ fs[Tmp(app_orig)] = 2
    /\ fs[app_orig] = 1
    /\ g.pre[app_orig] = 1

\* C3 (as claimed): the same, and the temporary file is a fresh one: safe_copy
\* never writes a temporary file that existed before.
C3_FreshTemporary ==
    /\ C3_AtomicWrite
    /\ \A d \in Working : ~Ev(<<"tmp_reused", d>>)

\* ------------------------------------------------------------ C4
\* C4 (as claimed): a cycle with connectivity that follows a committed cycle
\* with connectivity, the origin unchanged in between, the working files already
\* at the origin's content and every download found identical, performs no
\* write (temporary file or rename) to app.py or main.py and ends as
\* no_update_needed.
C4_SecondRunWritesNothing ==
    ( /\ Finished
      /\ prev # NoPrev /\ prev = remote
      /\ loc.internet /\ ~loc.force
      /\ \A u \in Urls : Ev(<<"dl_identical", u>>)
      /\ \A p \in Sources : g.pre[p] = remote )
    => /\ \A p \in Sources : ~WroteStaged(p)
       /\ no_update_needed

\* ------------------------------------------------------------ C5
\* C5 (as claimed): when the content downloaded for a source file equals the
\* content of the working file, no write to that working file happens in the
\* cycle.
C5_ContentAddressedSkip ==
    \A p \in Sources :
        ( /\ DownloadOk(UrlOf(p))
          /\ ~loc.force
          /\ g.pre[p] = remote )
        => ~WroteStaged(p)

\* ------------------------------------------------------------ C6
\* C6 (as claimed): in a cycle with connectivity where the download of X failed
\* and the download of Y succeeded, Y's staged file has been applied (copied
\* over Y's working file, unless that copy met an I/O error) and X's working
\* file has not been overwritten with staged content.
C6_IndependentFailure ==
    \A X \in Sources, Y \in Sources :
        ( /\ Finished
          /\ X # Y
          /\ loc.internet
          /\ DownloadFailed(UrlOf(X))
          /\ DownloadOk(UrlOf(Y)) )
        => /\ Ev(<<"apply", Y>>)
           /\ Overwritten(Y) \/ Ev(<<"copy_fail", StagedOf(Y), Y>>)
           /\ ~WroteStaged(X)

\* C6 (amended): the same with force off; and both downloads are attempted
\* whatever the other's result.
C6_IndependentFailureNoForce ==
    /\ \A X \in Sources, Y \in Sources :
        ( /\ Finished
          /\ X # Y
          /\ loc.internet
          /\ ~loc.force
          /\ DownloadFailed(UrlOf(X))
          /\ DownloadOk(UrlOf(Y)) )
        => /\ Ev(<<"apply", Y>>)
           /\ Overwritten(Y) \/ Ev(<<"copy_fail", StagedOf(Y), Y>>)
           /\ ~WroteStaged(X)
    /\ (Finished /\ loc.internet) =>
          \A p \in Sources : DownloadOk(UrlOf(p)) \/ DownloadFailed(UrlOf(p))

\* main.py's download fails while a staged main.py of an earlier cycle lies
\* there; app.py is downloaded and applied, main.py is left alone
C6_Witness ==
    /\ Finished
    /\ loc.internet /\ ~loc.force
    /\ DownloadFailed(MAIN_URL) /\ DownloadOk(APP_URL)
    /\ Overwritten(app_orig)
    /\ exists(main_path) /\ exists(main_orig)
    /\ ~WroteStaged(main_orig)

\* ------------------------------------------------------------ C7
\* C7 (as claimed): a working file that existed at the start of the cycle is
\* overwritten only after its backup was completely written in this cycle, and
\* is not overwritten when its backup failed.
C7_BackupBeforeOverwrite ==
    \A p \in Sources :
        (g.pre[p] # Absent /\ Overwritten(p)) =>
            /\ Ev(<<"backup_ok", p>>)
            /\ ~Ev(<<"backup_fail", p>>)
            /\ fs[Bak(p)] = g.pre[p]

C9_SkipMutatesNothing ==
    (Finished /\ Ev(<<"no_internet">>) /\ g.pre[REQ_FILE] = Absent) =>
        /\ skipped_no_network
        /\ fs = g.pre
        /\ updateDir = g.preDir

\* C9 (amended): the same, except that the staging directory has been created
\* when it did not exist.
C9_SkipCreatesOnlyStagingDir ==
    (Finished /\ Ev(<<"no_internet">>) /\ g.pre[REQ_FILE] = Absent) =>
        /\ skipped_no_network
        /\ fs = g.pre
        /\ updateDir

C9_Witness ==
    /\ skipped_no_network
    /\ Ev(<<"no_internet">>)
    /\ g.pre[REQ_FILE] = Absent
    /\ g.pre[app_orig] = 1
    /\ ~g.preDir /\ updateDir

\* ------------------------------------------------------------ C10
\* C10 (as claimed, for the file the import test loads): with connectivity,
\* when the origin's content of that file raises an exception on load, the
\* cycle ends as rolled_back, the working file has its content of before the
\* call, and its backup file is on disk.
C10_ImportFailureRolledBack ==
    (Finished /\ loc.internet /\ Ev(<<"import_fail", remote>>)
       /\ DownloadOk(APP_URL)) =>
        /\ rolled_back
        /\ fs[app_orig] = g.pre[app_orig]
        /\ exists(Bak(app_orig))

\* ------------------------------------------------------------ C11
\* C11 (as claimed): a working file is written with staged content only after
\* the checks have passed, so a cycle in which a check failed has written
\* neither app.py nor main.py.
C11_WrittenOnlyOnSuccess ==
    (Finished /\ VerificationFailed) => \A p \in Sources : ~WroteStaged(p)

\* C11 (amended): the staged content is copied over the working files before
\* the safety checks, which then run on the working files: while a staged
\* file is being copied over app.py or main.py no check of the cycle has given
\* a verdict yet, every check's verdict comes after the last such copy, and a
\* file is copied only when the apply decision chose it (its download
\* succeeded, or force, or no connectivity).  A cycle that does not end in
\* success may so have written the working files.
C11_ChecksAfterApply ==
    /\ (call.fn = "safe_copy" /\ call.src \in Staged /\ call.dst \in Sources) =>
           /\ ~CheckDone
           /\ pc \in {"L441r", "L445r"}
    /\ CheckDone => pc \notin {"L429", "L435", "L435r", "L436", "L436r",
                               "L441", "L441r", "L445", "L445r"}
    /\ \A p \in Sources :
          WroteStaged(p) =>
             \/ DownloadOk(UrlOf(p))
             \/ loc.force
             \/ ~loc.internet

\* the digest check fails on an app.py that already holds the new content
C11_Witness ==
    /\ pc = "L467"
    /\ Ev(<<"hash_fail", app_orig>>)
    /\ Overwritten(app_orig)
    /\ g.pre[app_orig] = 1
    /\ fs[app_orig] = 2

\* ------------------------------------------------------------ C12
\* C12 (as claimed): after a cycle that ends in rollback, a requirements.txt
\* that existed before the call has the content it had then.
C12_RollbackRestoresManifest ==
    (rolled_back /\ g.pre[REQ_FILE] \in Contents) => fs[REQ_FILE] = g.pre[REQ_FILE]

\* ------------------------------------------------------------ C13
\* C13: under force, a source file whose staged copy was left by an earlier
\* cycle, and whose download in this cycle failed or found the staged copy
\* identical, has been applied when update_files has finished: the staged file
\* was copied over the working file (renamed into place, unless the copy met
\* an I/O error).
C13_ForceAppliesStaged ==
    \A p \in Sources :
        ( /\ Finished
          /\ loc.force
          /\ g.pre[StagedOf(p)] \in Contents
          /\ DownloadFailed(UrlOf(p)) \/ Ev(<<"dl_identical", UrlOf(p)>>) )
        => /\ Ev(<<"apply", p>>)
           /\ Ev(<<"tmp_write", StagedOf(p), p>>) \/ Ev(<<"copy_fail", StagedOf(p), p>>)
           /\ Overwritten(p) \/ Ev(<<"copy_fail", StagedOf(p), p>>)

\* app.py's download fails under force while update/app.py of an earlier cycle
\* holds another revision than app.py: that revision is now in app.py
C13_Witness ==
    /\ Finished /\ outcome = "committed"
    /\ loc.force
    /\ DownloadFailed(APP_URL)
    /\ g.pre[app_path] = 2
    /\ g.pre[app_orig] = 1
    /\ Overwritten(app_orig)
    /\ fs[app_orig] = 2

\* ------------------------------------------------------------ C14
\* C14 (as claimed): with FLAGS["no_update"] set, whatever the other flags,
\* update_files makes no request and touches no file or directory.
C14_NoUpdateSkipsAlways ==
    FLAGS.no_update =>
        /\ call = NoCall
        /\ fs = g.pre
        /\ updateDir = g.preDir

\* C14 (amended): the same when force_update is not set; with both flags set
\* the cycle is not skipped.
C14_NoUpdateSkipsUnlessForced ==
    /\ (FLAGS.no_update /\ ~FLAGS.force_update) =>
           /\ pc \in {"L371", "done"}
           /\ call = NoCall
           /\ fs = g.pre
           /\ updateDir = g.preDir
           /\ g.ev \subseteq {<<"killed">>}
           /\ Finished => outcome = "disabled"
    /\ (FLAGS.no_update /\ FLAGS.force_update /\ Finished) =>
           outcome # "disabled"

C14_Witness ==
    /\ Finished
    /\ outcome = "disabled"
    /\ FLAGS.no_update /\ ~FLAGS.force_update
    /\ fs[app_orig] = 1 /\ remote = 2
    /\ ~updateDir

\* ------------------------------------------------------------ read_requirements
\* str.strip(): leading and trailing whitespace removed
IsSpace(ch) == ch \in {" ", "\t"}

RECURSIVE LStrip(_)
LStrip(s) ==
    IF Len(s) > 0 /\ IsSpace(SubSeq(s, 1, 1))
    THEN LStrip(SubSeq(s, 2, Len(s)))
    ELSE s

RECURSIVE RStrip(_)
RStrip(s) ==
    IF Len(s) > 0 /\ IsSpace(SubSeq(s, Len(s), Len(s)))
    THEN RStrip(SubSeq(s, 1, Len(s) - 1))
    ELSE s

strip(s) == RStrip(LStrip(s))

\* str.startswith
startswith(s, prefix) ==
    Len(s) >= Len(prefix) /\ SubSeq(s, 1, Len(prefix)) = prefix

\* line 487, the condition of the comprehension
KeptLine(l) == strip(l) # "" /\ ~startswith(strip(l), "#")

\* variant: only the short form of the directive is skipped
IsDirectiveShortOnly(l) == startswith(l, "-r ")

\* line 490
IsDirective(l) == startswith(l, "-r ") \/ startswith(l, "--requirement")

NotDirective(l) == ~IsDirective(l)

\* lines 483-497: [] when the file is missing or cannot be read; else the
\* comprehension of line 487, then the loop of lines 489-492
read_requirements(fileExists, readOk, text) ==
    IF ~fileExists THEN <<>>
    ELSE IF ~readOk THEN <<>>
    ELSE LET kept == SelectSeq(text, KeptLine)
             lines == [i \in 1..Len(kept) |-> strip(kept[i])]
         IN  SelectSeq(lines, NotDirective)

\* lines of a requirements.txt, without their line ends
RawLines ==
    {"# comment", "", "requests>=2", "-r other.txt", "httpx",
     "  # indented", "   ", " httpx ", "\t-r dev.txt", "-rother.txt", "-r",
     "--requirement other.txt", "--requirement=other.txt", "-e .", "pkg # note"}

ExampleFile == <<"# comment", "", "requests>=2", "-r other.txt", "httpx">>

Texts ==
    UNION {[1..n -> RawLines] : n \in 0..MaxLines} \cup {ExampleFile}

\* what each digest url answers to try_download_optional_hash: a request
\* error, a status other than 200, a text without a 64-hex token, or a text
\* with the digest of some content
SuffixAnswers ==
    {<<"error">>, <<"status", 404>>, <<"no_token">>} \cup {Sha256(c) : c \in Contents}

\* lines 199-210: the token one answer yields, if any
Token(answer) == IF answer[1] = "sha256" THEN answer ELSE NoDigest

\* the calls of the two functions, with what they find in their environment
\* test_import_module_from_path (lines 347-363).  sys.modules is a table from
\* module names to what is loaded under them: nothing, the module the running
\* program had loaded, or a module loaded while the candidate was executed.
ModuleNames == {"app", "omx_update_test", "httpx"}
NotLoaded == "none"
ModuleTables == [ModuleNames -> {NotLoaded, "running"}]

\* what the candidate file imports at its top (app.py line 11: import httpx)
CandidateImports == {{}, {"httpx"}}

\* the import statement: a name not in the table is loaded and entered
Import(table, names) ==
    [n \in ModuleNames |->
       IF n \in names /\ table[n] = NotLoaded THEN "candidate" ELSE table[n]]

\* line 357: module_from_spec makes the module and enters it nowhere
Register(table) == table

\* lines 353-358: the table after the load; the imports at the top of the
\* candidate run before anything else in it can fail
exec_module(table, specOk, imports) ==
    IF specOk THEN Import(Register(table), imports) ELSE table

\* line 361: except Exception
LoadCaught(r) == r = "Exception"

FnCalls ==
    [fn : {"read_requirements"}, at : {"call"}, fileExists : BOOLEAN,
     readOk : BOOLEAN, text : Texts]
    \cup
    {c \in [fn : {"test_import_module_from_path"}, at : {"call"}, specOk : BOOLEAN,
             imports : CandidateImports, load : LoadResults,
             before : ModuleTables, sys_modules : ModuleTables] :
       c.sys_modules = c.before}
    \cup
    [fn : {"try_download_optional_hash"}, at : {"call"},
     answers : [1..2 -> SuffixAnswers], destExists : BOOLEAN, readOk : BOOLEAN,
     local : Contents]

InitFn ==
    /\ call \in FnCalls
    /\ pc = "fn"
    /\ ret = FALSE
    /\ fs = [p \in Paths |-> Absent]
    /\ updateDir = FALSE
    /\ remote = 1
    /\ FLAGS = [no_update |-> FALSE, force_update |-> FALSE]
    /\ loc = loc0
    /\ exc = NoExc
    /\ outcome = "none"
    /\ g = g0
    /\ prev = prev0
    /\ cycles = 0
    /\ faultsLeft = 0

read_requirements_return ==
    /\ call.fn = "read_requirements" /\ call.at = "call"
    /\ ret' = read_requirements(call.fileExists, call.readOk, call.text)
    /\ call' = [call EXCEPT !.at = "return"]
    /\ UNCHANGED <<fs, updateDir, remote, FLAGS, pc, loc, exc, outcome, g, prev, cycles, faultsLeft>>

try_download_optional_hash_return ==
    /\ call.fn = "try_download_optional_hash" /\ call.at = "call"
    /\ ret' = HashVerdict([i \in 1..2 |-> Token(call.answers[i])],
                          call.destExists,
                          IF call.destExists /\ call.readOk
                          THEN Sha256(call.local) ELSE <<>>)
    /\ call' = [call EXCEPT !.at = "return"]
    /\ UNCHANGED <<fs, updateDir, remote, FLAGS, pc, loc, exc, outcome, g, prev, cycles, faultsLeft>>

\* lines 352-363: True when the load went through, False when the spec could
\* not be made or the load raised an Exception; anything else the load raises
\* leaves the function
test_import_module_from_path_return ==
    /\ call.fn = "test_import_module_from_path" /\ call.at = "call"
    /\ LET table == exec_module(call.sys_modules, call.specOk, call.imports)
           r == IF call.specOk THEN call.load ELSE "Exception"
       IN  /\ ret' = (r = "ok")
           /\ exc' = IF r = "ok" \/ LoadCaught(r) THEN NoExc ELSE r
           /\ call' = [call EXCEPT !.sys_modules = table,
                                   !.at = IF r = "ok" \/ LoadCaught(r)
                                          THEN "return" ELSE "raised"]
    /\ UNCHANGED <<fs, updateDir, remote, FLAGS, pc, loc, outcome, g, prev, cycles, faultsLeft>>

NextFn ==
    \/ test_import_module_from_path_return
    \/ read_requirements_return
    \/ try_download_optional_hash_return

SpecFn == InitFn /\ [][NextFn]_vars

Returned(fn) == call.fn = fn /\ call.at = "return"

\* ------------------------------------------------------------ C15
\* the lines some test lets through, stripped, in file order
StrippedWhere(text, Test(_)) ==
    LET all == [i \in 1..Len(text) |-> strip(text[i])]
    IN  SelectSeq(all, Test)

C15_ClaimedLine(l) ==
    l # "" /\ ~startswith(l, "#") /\ ~startswith(l, "-r")
           /\ ~startswith(l, "--requirement")

C15_AmendedLine(l) ==
    l # "" /\ ~startswith(l, "#") /\ ~startswith(l, "-r ")
           /\ ~startswith(l, "--requirement")

\* C15 (as claimed): read_requirements returns, in file order, the stripped
\* lines that are non-empty and begin neither with '#' nor with -r nor with
\* --requirement.
C15_ParsesManifest ==
    (Returned("read_requirements") /\ call.fileExists /\ call.readOk) =>
        ret = StrippedWhere(call.text, C15_ClaimedLine)

\* C15 (amended): read_requirements returns, in file order, the stripped lines
\* that are non-empty and begin neither with '#' nor with '-r ' (the letter
\* followed by a space) nor with '--requirement'; the example file gives
\* ['requests>=2', 'httpx']; a file that is missing or cannot be read gives [].
C15_ParsesManifestShortWithSpace ==
    Returned("read_requirements") =>
        /\ (call.fileExists /\ call.readOk) =>
               ret = StrippedWhere(call.text, C15_AmendedLine)
        /\ (call.fileExists /\ call.readOk /\ call.text = ExampleFile) =>
               ret = <<"requests>=2", "httpx">>
        /\ ~(call.fileExists /\ call.readOk) => ret = <<>>

C15_Witness ==
    /\ Returned("read_requirements")
    /\ call.fileExists /\ call.readOk
    /\ call.text = ExampleFile
    /\ ret = <<"requests>=2", "httpx">>

\* ------------------------------------------------------------ C16
\* C16 (as claimed): in a cycle without connectivity and without force, a
\* working source file that existed before the call keeps its content (nothing
\* is done to it), whether or not a staged file for it lies in the staging
\* directory.
C16_OfflineKeepsWorkingFile ==
    \A p \in Sources :
        ( /\ Finished
          /\ Ev(<<"no_internet">>)
          /\ ~loc.force
          /\ g.pre[p] # Absent )
        => fs[p] = g.pre[p]

\* ------------------------------------------------------------ C17
\* C17 (as claimed): a cycle in which no file was applied does not end in
\* rollback.
C17_NoApplyNoRollback ==
    (Finished /\ \A p \in Sources : ~Ev(<<"apply", p>>)) => ~Ev(<<"rollback">>)

\* ------------------------------------------------------------ C18
IsDigest(answer) == answer[1] = "sha256"

\* C18: try_download_optional_hash returns True when neither url yields a
\* digest (request error, status other than 200, no token), and otherwise
\* returns whether the first digest found, url + ".sha256" before
\* url + ".sha256sum", is the SHA-256 of the local file (False when the local
\* file is missing or cannot be read); a url that yields no digest never
\* makes it return False.
C18_OptionalHash ==
    Returned("try_download_optional_hash") =>
        LET a1 == call.answers[1]
            a2 == call.answers[2]
            matches(a) == call.destExists /\ call.readOk /\ a = Sha256(call.local)
        IN  /\ (~IsDigest(a1) /\ ~IsDigest(a2)) => ret = TRUE
            /\ IsDigest(a1) => ret = matches(a1)
            /\ (~IsDigest(a1) /\ IsDigest(a2)) => ret = matches(a2)

\* the first url fails, the second publishes the digest of another content
C18_Witness ==
    /\ Returned("try_download_optional_hash")
    /\ call.answers[1] = <<"error">>
    /\ call.answers[2] = Sha256(2)
    /\ call.destExists /\ call.readOk /\ call.local = 1
    /\ ret = FALSE

\* ------------------------------------------------------------ C19
\* C19 (as claimed): when the manifest was downloaded and the working
\* requirements.txt already holds the downloaded content, no write to the
\* working requirements.txt happens in the cycle.
C19_ManifestCopiedOnlyIfDifferent ==
    (DownloadOk(REQ_URL) /\ g.pre[REQ_FILE] = remote) => ~WroteStaged(REQ_FILE)

\* ------------------------------------------------------------ C20
\* C20: when the restore of a working file fails during the rollback (its
\* backup is gone, or the copy fails), no other exception replaces the one of
\* the failed verification, the restore of main.py is still attempted when
\* main.py was backed up, and the cycle ends rolled back as after a clean
\* rollback.
C20_RestoreFailure ==
    LET RestoreFailed(p) ==
            Ev(<<"restore_nobak", p>>) \/ Ev(<<"copy_fail", Bak(p), p>>)
        Attempted(p) == Ev(<<"restore", p>>) \/ Ev(<<"restore_nobak", p>>)
    IN  /\ (\E p \in Sources : RestoreFailed(p)) =>
               /\ VerificationFailed
               /\ exc = "RuntimeError" \/ outcome = "killed"
               /\ Finished => rolled_back
        /\ (Finished /\ VerificationFailed) =>
               /\ rolled_back
               /\ loc.app_backup => Attempted(app_orig)
               /\ loc.main_backup => Attempted(main_orig)

\* the copy of app.py.bak over app.py fails; main.py is restored all the same
C20_Witness ==
    /\ rolled_back
    /\ Ev(<<"copy_fail", Bak(app_orig), app_orig>>)
    /\ Overwritten(main_orig)
    /\ Ev(<<"rename", Bak(main_orig), main_orig>>)
    /\ fs[main_orig] = g.pre[main_orig]
    /\ fs[app_orig] # g.pre[app_orig]

\* ------------------------------------------------------------ animated_loading
\* The indicator thread of update_files (lines 383-386, 476-480) and its body
\* animated_loading (lines 120-134).  Here pc is the position of update_files,
\* call is the indicator thread (its position, the frame dots % 4, the ticks
\* its sleep still lasts, whether its print is blocked on the terminal) and loc
\* holds stop_event and the ticks a timed wait of update_files still lasts.
\* Time is counted in ticks of 0.05 s.
\* line 130: time.sleep(0.35)
SleepTicks == 7
\* line 49: LOADER_JOIN_TIMEOUT = 2.0
JoinTicks == 40
\* line 479: time.sleep(0.15)
SettleTicks == 3

\* the ways the try block of update_files (lines 392-475) is left
ExitPaths == {"return", "commit", "raise", "SystemExit"}

NoThread == [fn |-> "animated_loading", at |-> "unstarted", frame |-> 0,
             sleep |-> 0, blocked |-> FALSE]

InitInd ==
    /\ pc = "L383"
    /\ call = NoThread
    /\ loc = [stop_event |-> FALSE, wait |-> 0, path |-> "none", late |-> 0]
    /\ g = g0
    /\ exc = NoExc
    /\ outcome = "none"
    /\ ret = FALSE
    /\ fs = [p \in Paths |-> Absent]
    /\ updateDir = TRUE
    /\ remote = 1
    /\ FLAGS = [no_update |-> FALSE, force_update |-> FALSE]
    /\ prev = prev0
    /\ cycles = 0
    /\ faultsLeft = 0

IndFrame == <<fs, updateDir, remote, FLAGS, ret, prev, cycles, faultsLeft>>

\* update_files has handed control back: returned, or an exception has left it
Exited == pc \in {"returned", "raised"}

\* variant: the early return of line 401 leaves without the finally clause
FinallyRunsUnlessReturn(path) == path # "return"

\* lines 392, 476: every way out of the try block runs the finally clause
FinallyRuns(path) == TRUE

\* line 478: join(timeout=LOADER_JOIN_TIMEOUT) gives up when the time is over
JoinExpired(wait) == wait = 0

\* lines 383-386: the event and the daemon thread are created, the thread starts
ind_start ==
    /\ pc = "L383"
    /\ call' = [NoThread EXCEPT !.at = "L123"]
    /\ pc' = "L392"
    /\ UNCHANGED <<loc, g, exc, outcome>>
    /\ UNCHANGED IndFrame

\* lines 392-475: the update itself, left in one of the four ways
ind_body ==
    /\ pc = "L392"
    /\ \E path \in ExitPaths :
         /\ loc' = [loc EXCEPT !.path = path]
         /\ exc' = CASE path = "raise" -> "RuntimeError"
                     [] path = "SystemExit" -> "SystemExit"
                     [] OTHER -> NoExc
         /\ pc' = IF FinallyRuns(path) THEN "L477" ELSE "exit"
    /\ UNCHANGED <<call, g, outcome>>
    /\ UNCHANGED IndFrame

\* line 477: stop_event.set()
ind_set_stop ==
    /\ pc = "L477"
    /\ loc' = [loc EXCEPT !.stop_event = TRUE, !.wait = JoinTicks]
    /\ pc' = "L478"
    /\ g' = Log(<<"join">>)
    /\ UNCHANGED <<call, exc, outcome>>
    /\ UNCHANGED IndFrame

\* line 478: loader_thread.join(timeout=LOADER_JOIN_TIMEOUT) returns when the
\* thread has ended, or when the timeout is over
ind_join ==
    /\ pc = "L478"
    /\ \/ /\ call.at = "end"
          /\ g' = Log(<<"joined">>)
       \/ /\ call.at # "end"
          /\ JoinExpired(loc.wait)
          /\ g' = Log(<<"join_timeout">>)
    /\ loc' = [loc EXCEPT !.wait = SettleTicks]
    /\ pc' = "L479"
    /\ UNCHANGED <<call, exc, outcome>>
    /\ UNCHANGED IndFrame

\* lines 479-480: time.sleep(0.15), clear_screen(), and update_files is left
ind_exit ==
    /\ \/ pc = "L479" /\ loc.wait = 0
       \/ pc = "exit"
    /\ pc' = IF exc = NoExc THEN "returned" ELSE "raised"
    /\ outcome' = loc.path
    /\ UNCHANGED <<call, loc, g, exc>>
    /\ UNCHANGED IndFrame

\* a print of the thread has come out: after update_files was left, it is late
Printed == IF Exited THEN [loc EXCEPT !.late = 1] ELSE loc

\* line 123: while not stop_event.is_set()
thread_check ==
    /\ call.at = "L123"
    /\ call' = [call EXCEPT !.at = IF loc.stop_event THEN "L132" ELSE "L125"]
    /\ UNCHANGED <<pc, loc, g, exc, outcome>>
    /\ UNCHANGED IndFrame

\* lines 124-129: the frame is printed; the write to the terminal may block
thread_print ==
    /\ call.at = "L125" /\ ~call.blocked
    /\ \/ /\ call' = [call EXCEPT !.at = "L130", !.sleep = SleepTicks]
          /\ loc' = Printed
          /\ g' = IF loc.stop_event THEN Log(<<"frame_after_stop">>) ELSE g
       \/ /\ call' = [call EXCEPT !.blocked = TRUE]
          /\ loc' = loc
          /\ g' = Log(<<"print_blocked">>)
    /\ UNCHANGED <<pc, exc, outcome>>
    /\ UNCHANGED IndFrame

\* the terminal takes the bytes of a blocked print
thread_unblock ==
    /\ call.at = "L125" /\ call.blocked
    /\ call' = [call EXCEPT !.at = "L130", !.sleep = SleepTicks, !.blocked = FALSE]
    /\ loc' = Printed
    /\ g' = IF loc.stop_event THEN Log(<<"frame_after_stop">>) ELSE g
    /\ UNCHANGED <<pc, exc, outcome>>
    /\ UNCHANGED IndFrame

\* lines 130-131: the sleep is over, dots += 1
thread_wake ==
    /\ call.at = "L130" /\ call.sleep = 0
    /\ call' = [call EXCEPT !.at = "L123", !.frame = (@ + 1) % 4]
    /\ UNCHANGED <<pc, loc, g, exc, outcome>>
    /\ UNCHANGED IndFrame

\* line 132: move_cursor(term_height, 1), and the thread ends
thread_end ==
    /\ call.at = "L132"
    /\ call' = [call EXCEPT !.at = "end"]
    /\ loc' = Printed
    /\ UNCHANGED <<pc, g, exc, outcome>>
    /\ UNCHANGED IndFrame

\* 0.05 s pass, and the running timers count down: only while no step that
\* takes no time is due, in update_files or in the thread
Tick ==
    /\ pc \notin {"L383", "L477", "exit"}
    /\ ~(pc = "L478" /\ (call.at = "end" \/ loc.wait = 0))
    /\ ~(pc = "L479" /\ loc.wait = 0)
    /\ call.at \notin {"L123", "L132"}
    /\ ~(call.at = "L125" /\ ~call.blocked)
    /\ ~(call.at = "L130" /\ call.sleep = 0)
    /\ call' = [call EXCEPT !.sleep = IF @ > 0 THEN @ - 1 ELSE 0]
    /\ loc' = [loc EXCEPT !.wait = IF @ > 0 THEN @ - 1 ELSE 0]
    /\ UNCHANGED <<pc, g, exc, outcome>>
    /\ UNCHANGED IndFrame

ThreadNext ==
    thread_check \/ thread_print \/ thread_wake \/ thread_end

NextInd ==
    \/ ind_start
    \/ ind_body
    \/ ind_set_stop
    \/ ind_join
    \/ ind_exit
    \/ thread_check
    \/ thread_print
    \/ thread_unblock
    \/ thread_wake
    \/ thread_end
    \/ Tick

\* The threads are scheduled and time passes; the update itself ends; a
\* blocked write to the terminal is taken in the end.
SpecInd ==
    /\ InitInd
    /\ [][NextInd]_vars
    /\ WF_vars(ThreadNext)
    /\ WF_vars(thread_unblock)
    /\ WF_vars(Tick)
    /\ WF_vars(ind_body \/ ind_set_stop \/ ind_join \/ ind_exit)

\* ------------------------------------------------------------ C21
\* C21 (as claimed): once update_files has been left, the indicator thread has
\* ended and prints nothing more.
C21_JoinedBeforeExit ==
    Exited => call.at = "end" /\ loc.late = 0

\* C21 (amended): on every way out of update_files after the thread was
\* started the stop signal is set and the thread is joined with a wait of at
\* most LOADER_JOIN_TIMEOUT; the wait runs out only when a print of the thread
\* was blocked; after the stop signal the thread prints at most the frame it
\* was at and the final cursor move; and once the stop signal is set the thread
\* ends.
C21_StopAndBoundedJoin ==
    /\ [](Exited =>
            /\ loc.stop_event
            /\ Ev(<<"joined">>) \/ Ev(<<"join_timeout">>))
    /\ [](Ev(<<"joined">>) => call.at = "end")
    /\ []((Exited /\ Ev(<<"joined">>)) => loc.late = 0)
    /\ [](Ev(<<"join_timeout">>) => Ev(<<"print_blocked">>))
    /\ [](call.at = "end" => loc.stop_event)
    /\ (loc.stop_event ~> call.at = "end")

\* the join gave up on a thread whose print was blocked; the print came out
\* after update_files had returned
C21_Witness ==
    /\ Exited
    /\ outcome = "return"
    /\ Ev(<<"join_timeout">>)
    /\ loc.late = 1
    /\ call.at = "end"

\* ------------------------------------------------------------ C22
\* C22: a working file has the one backup slot Bak(path); no step of the
\* update cycle removes a backup file (it goes only when it is removed from
\* outside); and when a cycle has ended in which the working file existed at
\* the start and backup_file copied it, the slot holds the file's content at
\* the start of that cycle, whatever an earlier cycle had left there.
C22_BackupSlot ==
    /\ [](\A p \in Sources :
            (pc = "done" /\ g.pre[p] \in Contents /\ Ev(<<"backup_ok", p>>)
               /\ ~Ev(<<"restore_nobak", p>>))
              => fs[Bak(p)] = g.pre[p])
    /\ [][\A p \in Sources :
            (exists(Bak(p)) /\ fs'[Bak(p)] = Absent)
              => (faultsLeft' < faultsLeft /\ <<"restore_nobak", p>> \in g'.ev)]_vars
    /\ [][\A p \in Sources : \A q \in Paths \ {Bak(p)} :
            (call.fn = "backup_file" /\ call.path = p) => fs'[q] = fs[q]]_vars

\* a second cycle has replaced the backup of revision 1 by one of revision 2
C22_Witness ==
    /\ pc = "done" /\ cycles = 1
    /\ g.pre[app_orig] = 2
    /\ Ev(<<"backup_ok", app_orig>>)
    /\ fs[Bak(app_orig)] = 2

\* ------------------------------------------------------------ C23
\* C23 (as claimed): when test_import_module_from_path is over, the table of
\* loaded modules is as it was before the call, no exception has left the
\* function, and it returned true exactly when the load raised nothing.
C23_IsolatedLoad ==
    (call.fn = "test_import_module_from_path" /\ call.at \in {"return", "raised"}) =>
        /\ call.sys_modules = call.before
        /\ exc = NoExc
        /\ ret = (call.specOk /\ call.load = "ok")

\* ------------------------------------------------------------ C24
\* C24 (as claimed): when a cycle has committed, a working file that the cycle
\* overwrote, and that held something else when the cycle began, holds no
\* content that an earlier cycle's check refused and whose rollback took it
\* back, unless the same check passed it in this cycle.
C24_NoStaleCommit ==
    (Finished /\ outcome = "committed") =>
        \A x \in g.rejected :
            (/\ g.pre[x[1]] \in Contents /\ g.pre[x[1]] # x[2]
             /\ Overwritten(x[1]) /\ fs[x[1]] = x[2]) =>
                /\ x[3] = "digest" => Ev(<<"hash_ok", x[1]>>)
                /\ x[3] = "import" => Ev(<<"import_ok", x[2]>>)

\* ------------------------------------------------------------ C25
\* C25: restore_backup is called for a working file only when backup_file
\* returned a path for it in this cycle, and what it copies over the working
\* file is the backup this cycle wrote, the content the file had when the
\* cycle began; a '.bak' file of an earlier cycle is never copied back.
C25_RestoreFromOwnBackup ==
    \A p \in Sources :
        /\ Ev(<<"restore", p>>) => Ev(<<"backup_ok", p>>)
        /\ (call.fn = "safe_copy" /\ call.src = Bak(p)) =>
               /\ call.dst = p
               /\ Ev(<<"backup_ok", p>>)
               /\ fs[Bak(p)] = g.pre[p]
        /\ Ev(<<"rename", Bak(p), p>>) => g.pre[p] \in Contents

\* in a second cycle the backup of app.py failed, the '.bak' of the first
\* cycle was still there with other content, a check failed, and the rollback
\* left that '.bak' alone
C25_Witness ==
    /\ Finished /\ cycles = 1
    /\ Ev(<<"backup_fail", app_orig>>)
    /\ fs[Bak(app_orig)] \in Contents
    /\ fs[Bak(app_orig)] # g.pre[app_orig]
    /\ VerificationFailed
    /\ Ev(<<"rollback">>)
    /\ ~Ev(<<"restore", app_orig>>)

\* ------------------------------------------------------------ admin.py
\* The admin console (src/admin.py): HTTPXAdminClient and AdminCLI.  Here pc is
\* the position of AdminCLI.run, loc holds the client's fields (token,
\* username, retries) with the local variables of the running command, call is
\* the _request in progress (with the record of its attempts) and ret / exc are
\* what it returned or raised.
MaxRetries == 3
MaxLogins == 2
MaxCommands == 2

\* str.lower, on the letters the inputs below use
LowerChar(ch) ==
    CASE ch = "R" -> "r" [] ch = "O" -> "o" [] ch = "T" -> "t"
      [] ch = "B" -> "b" [] ch = "Y" -> "y" [] ch = "E" -> "e"
      [] ch = "S" -> "s" [] OTHER -> ch

RECURSIVE lower(_)
lower(s) ==
    IF s = "" THEN "" ELSE LowerChar(SubSeq(s, 1, 1)) \o lower(SubSeq(s, 2, Len(s)))

\* what the operator can type; Interrupt stands for Ctrl-C at a prompt
Interrupt == "^C"
NameInputs == {"", "Root", "root", " root ", "bob"}
ArgInputs == {"Root", "root", "bob"}
ConfirmInputs == {"y", " Yes", "n", "", Interrupt}

\* lines 25-31
confirm(answer) ==
    IF answer = Interrupt THEN FALSE ELSE lower(strip(answer)) \in {"y", "yes"}

NoToken == <<>>
\* the token a login returns, marked with the account and its role
TokenOf(username, role) == <<"token", username, role>>

\* variant: retries is taken as given
ClampRetriesNone(retries) == retries

\* line 43: self.retries = max(1, int(retries))
ClampRetries(retries) == IF retries >= 1 THEN retries ELSE 1

\* One attempt of do_once (lines 57-76) ends in one of these ways: the request
\* never reaches the server (RequestError); the server handles it and the
\* response is lost (RequestError); the body is no JSON; the status is >= 400;
\* the body says ok: false; or the data comes back.
AttemptOutcomes ==
    {"no_connection", "lost_response", "invalid_json", "http_error", "ok_false", "ok"}
\* the server got the request / the server carried it out
Received(o) == o # "no_connection"
Processed(o) == o \in {"lost_response", "ok"}

StateChangingPaths ==
    {"/admin/ban", "/admin/unban", "/admin/delete_user", "/admin/broadcast",
     "/admin/change_user_password", "/admin/change_user_username"}

locAdmin0(retries) ==
    [token |-> NoToken, username |-> "", retries |-> ClampRetries(retries),
     arg |-> retries, typed |-> "", logins |-> 0, commands |-> 0,
     name |-> "", args |-> <<>>]

InitAdmin ==
    /\ \E retries \in 0..MaxRetries : loc = locAdmin0(retries)
    /\ pc = "L204"
    /\ call = NoCall
    /\ ret = FALSE
    /\ exc = NoExc
    /\ outcome = "none"
    /\ g = g0
    /\ fs = [p \in Paths |-> Absent]
    /\ updateDir = FALSE
    /\ remote = 1
    /\ FLAGS = [no_update |-> FALSE, force_update |-> FALSE]
    /\ prev = prev0
    /\ cycles = 0
    /\ faultsLeft = 0

AdminFrame == <<fs, updateDir, remote, FLAGS, outcome, g, prev, cycles, faultsLeft>>

\* lines 56, 78: _request is entered; the header carries self.token when set
CallRequest(path, target, answer) ==
    call' = [fn |-> "_request", at |-> "L79", path |-> path, target |-> target,
             auth |-> loc.token, answer |-> answer, attempt |-> 0, log |-> <<>>]

RequestOver == call.fn = "_request" /\ call.at \in {"return", "raised"}

\* line 79: for attempt in range(self.retries); line 88 after the loop
request_loop ==
    /\ call.fn = "_request" /\ call.at = "L79"
    /\ IF call.attempt < loc.retries
       THEN call' = [call EXCEPT !.at = "L81"] /\ exc' = exc
       ELSE /\ call' = [call EXCEPT !.at = "raised"]
            /\ exc' = IF call.log = <<>> THEN <<"TypeError">>
                      ELSE <<"APIError", call.log[Len(call.log)]>>
    /\ UNCHANGED <<pc, loc, ret>>
    /\ UNCHANGED AdminFrame

\* lines 80-87: one do_once; its data is returned, or its APIError is kept and
\* raised again when this was the last attempt, else the loop goes on after
\* the backoff
request_do_once ==
    /\ call.fn = "_request" /\ call.at = "L81"
    /\ \E o \in AttemptOutcomes :
         LET log == Append(call.log, o)
         IN  IF o = "ok"
             THEN /\ \E hasToken \in BOOLEAN, role \in {"admin", "user"} :
                       ret' = [path |-> call.path, attempt |-> Len(log),
                               token |-> IF call.path = "/login" /\ hasToken
                                         THEN TokenOf(lower(call.target), role)
                                         ELSE NoToken,
                               role |-> IF call.path = "/login" THEN role ELSE "none"]
                  /\ call' = [call EXCEPT !.log = log, !.at = "return"]
                  /\ exc' = NoExc
             ELSE /\ ret' = ret
                  /\ IF call.attempt + 1 >= loc.retries
                     THEN /\ call' = [call EXCEPT !.log = log, !.at = "raised"]
                          /\ exc' = <<"APIError", o>>
                     ELSE /\ call' = [call EXCEPT !.log = log, !.at = "L79",
                                                  !.attempt = @ + 1]
                          /\ exc' = exc
    /\ UNCHANGED <<pc, loc>>
    /\ UNCHANGED AdminFrame

\* lines 204-216: the login prompt; an empty name or Ctrl-C ends the program
login_prompt ==
    /\ pc = "L204" /\ call = NoCall
    /\ \E typed \in NameInputs \cup {Interrupt} :
         LET username == strip(typed)
         IN  IF typed = Interrupt \/ username = "" \/ loc.logins >= MaxLogins
             THEN pc' = "exited" /\ call' = call /\ loc' = loc
             ELSE /\ CallRequest("/login", username, "none")
                  /\ loc' = [loc EXCEPT !.typed = username, !.logins = @ + 1]
                  /\ pc' = "L97"
    /\ UNCHANGED <<ret, exc>>
    /\ UNCHANGED AdminFrame

\* lines 97-104 and 217-224: login stores the token and the name when the
\* response has a token; _login_flow asks again after an APIError or when the
\* role is not 'admin'
login_return ==
    /\ pc = "L97" /\ RequestOver
    /\ call' = NoCall
    /\ IF call.at = "raised"
       THEN /\ loc' = [loc EXCEPT !.typed = ""]
            /\ pc' = IF exc[1] = "APIError" THEN "L204" ELSE "exited"
       ELSE IF ret.token = NoToken
            THEN loc' = [loc EXCEPT !.typed = ""] /\ pc' = "L204"
            ELSE /\ loc' = [loc EXCEPT !.token = ret.token,
                                       !.username = lower(loc.typed),
                                       !.typed = ""]
                 /\ pc' = IF ret.role # "admin" THEN "L204" ELSE "L169"
    /\ exc' = NoExc
    /\ ret' = FALSE
    /\ UNCHANGED AdminFrame

\* lines 169-187: a line is read and split; help, an empty line and an unknown
\* name go back to the prompt; Ctrl-C is the command exit
run_dispatch ==
    /\ pc = "L169" /\ call = NoCall /\ loc.commands < MaxCommands
    /\ \E name \in {"", "help", "bogus", "list", "ban", "unban", "delete",
                    "setpass", "rename", "broadcast", "exit", Interrupt},
          args \in {<<>>} \cup {<<a>> : a \in ArgInputs}
                   \cup {<<a, b>> : a \in {"Root"}, b \in ArgInputs} :
         /\ loc' = [loc EXCEPT !.commands = @ + 1,
                               !.name = IF name = Interrupt THEN "exit" ELSE name,
                               !.args = IF name \in {"", "help", "bogus", Interrupt}
                                        THEN <<>> ELSE args]
         /\ pc' = "L189"
    /\ UNCHANGED <<call, ret, exc>>
    /\ UNCHANGED AdminFrame

\* variant: the name is compared as typed
TargetOfStripped(raw) == strip(raw)

\* lines 300-302, 315-317, 328-330: .strip().lower() of what was typed
TargetOf(raw) == lower(strip(raw))

Dispatched(name) == pc = "L189" /\ call = NoCall /\ loc.name = name

\* the command sends its request, or returns to the prompt
Send(path, target, answer) ==
    /\ CallRequest(path, target, answer)
    /\ pc' = "L190"
    /\ UNCHANGED <<loc, ret, exc>>
    /\ UNCHANGED AdminFrame

Back ==
    /\ pc' = "L169"
    /\ loc' = [loc EXCEPT !.name = "", !.args = <<>>]
    /\ UNCHANGED <<call, ret, exc>>
    /\ UNCHANGED AdminFrame

\* the name a command works on: args[0].lower(), or the prompt's answer
Targets ==
    IF loc.args # <<>> THEN {TargetOf(loc.args[1])}
    ELSE {TargetOf(raw) : raw \in NameInputs}

\* lines 239-259
cmd_list ==
    /\ Dispatched("list")
    /\ Send("/admin/list_users", "", "none")

\* lines 298-311
cmd_ban ==
    /\ Dispatched("ban")
    /\ \E target \in Targets, answer \in ConfirmInputs :
         IF target = "" \/ target = loc.username \/ ~confirm(answer)
         THEN Back
         ELSE Send("/admin/ban", target, answer)

\* lines 313-324
cmd_unban ==
    /\ Dispatched("unban")
    /\ \E target \in Targets, answer \in ConfirmInputs :
         IF target = "" \/ ~confirm(answer)
         THEN Back
         ELSE Send("/admin/unban", target, answer)

\* lines 326-339
cmd_delete ==
    /\ Dispatched("delete")
    /\ \E target \in Targets, answer \in ConfirmInputs :
         IF target = "" \/ target = loc.username \/ ~confirm(answer)
         THEN Back
         ELSE Send("/admin/delete_user", target, answer)

\* lines 261-278
cmd_setpass ==
    /\ Dispatched("setpass")
    /\ \E target \in Targets, new_pw \in {"", "short", "longenough"}, answer \in ConfirmInputs :
         IF target = "" \/ new_pw = "" \/ Len(new_pw) < 8 \/ ~confirm(answer)
         THEN Back
         ELSE Send("/admin/change_user_password", target, answer)

\* lines 280-295
cmd_rename ==
    /\ Dispatched("rename")
    /\ \E old \in (IF Len(loc.args) >= 2 THEN {lower(loc.args[1])}
                   ELSE {TargetOf(raw) : raw \in NameInputs}),
          new \in (IF Len(loc.args) >= 2 THEN {lower(loc.args[2])}
                   ELSE {TargetOf(raw) : raw \in NameInputs}),
          answer \in ConfirmInputs :
         IF old = "" \/ new = "" \/ old = new \/ ~confirm(answer)
         THEN Back
         ELSE Send("/admin/change_user_username", old, answer)

\* lines 341-370
cmd_broadcast ==
    /\ Dispatched("broadcast")
    /\ \E subj \in (IF loc.args # <<>> THEN {loc.args[1]}
                    ELSE {"", "news"}),
          msg \in {"", "news"}, answer \in ConfirmInputs :
         IF subj = "" \/ msg = "" \/ ~confirm(answer)
         THEN Back
         ELSE Send("/admin/broadcast", "", answer)

\* lines 176-187: nothing is called for an empty line, help or an unknown name
run_no_command ==
    /\ pc = "L189" /\ call = NoCall /\ loc.name \in {"", "help", "bogus"}
    /\ Back

\* lines 372-375
cmd_exit ==
    /\ Dispatched("exit")
    /\ pc' = "exited"
    /\ UNCHANGED <<call, loc, ret, exc>>
    /\ UNCHANGED AdminFrame

\* lines 188-198: the command's request is over; an APIError is printed
run_after ==
    /\ pc = "L190" /\ RequestOver
    /\ call' = NoCall
    /\ exc' = NoExc
    /\ pc' = "L169"
    /\ loc' = [loc EXCEPT !.name = "", !.args = <<>>]
    /\ ret' = FALSE
    /\ UNCHANGED AdminFrame

NextAdmin ==
    \/ login_prompt
    \/ login_return
    \/ request_loop
    \/ request_do_once
    \/ run_dispatch
    \/ cmd_list
    \/ cmd_ban
    \/ cmd_unban
    \/ cmd_delete
    \/ cmd_setpass
    \/ cmd_rename
    \/ cmd_broadcast
    \/ cmd_exit
    \/ run_no_command
    \/ run_after

SpecAdmin == InitAdmin /\ [][NextAdmin]_vars

\* ------------------------------------------------------------ C26
\* C26: a call of _request makes at least one attempt and at most
\* max(1, retries); when it returns, its last attempt is the first that
\* succeeded and the data is that attempt's; when it raises, it has made
\* exactly max(1, retries) attempts, all failed, and the APIError is the last
\* attempt's.
C26_BoundedAttempts ==
    LET n == Len(call.log)
        most == IF loc.arg >= 1 THEN loc.arg ELSE 1
    IN  /\ call.fn = "_request" => n <= most
        /\ (call.fn = "_request" /\ call.at = "return") =>
               /\ n >= 1
               /\ call.log[n] = "ok"
               /\ \A i \in 1..(n - 1) : call.log[i] # "ok"
               /\ ret.attempt = n /\ ret.path = call.path
        /\ (call.fn = "_request" /\ call.at = "raised") =>
               /\ n = most
               /\ \A i \in 1..n : call.log[i] # "ok"
               /\ exc = <<"APIError", call.log[n]>>

\* with retries = 0 one attempt was made, it failed, and its APIError was raised
C26_Witness ==
    /\ call.fn = "_request" /\ call.at = "raised"
    /\ loc.arg = 0 /\ Len(call.log) = 1
    /\ exc = <<"APIError", "lost_response">>

\* ------------------------------------------------------------ C27
\* C27 (as claimed): the request of a confirmed state-changing command reaches
\* the server at most once, and the server carries it out at most once.
C27_AtMostOnce ==
    (call.fn = "_request" /\ call.path \in StateChangingPaths) =>
        /\ Cardinality({i \in 1..Len(call.log) : Received(call.log[i])}) <= 1
        /\ Cardinality({i \in 1..Len(call.log) : Processed(call.log[i])}) <= 1

\* ------------------------------------------------------------ C28
\* C28 (as claimed): no command is dispatched, and no request other than a
\* login is sent, before a login that returned a token and the role 'admin';
\* a login that raised APIError or returned no token leaves token and username
\* as they were; and a token the client holds comes from a login whose role
\* was 'admin'.
C28_AdminGate ==
    /\ (pc \in {"L169", "L189", "L190"}) =>
           (loc.token # NoToken /\ loc.token[3] = "admin")
    /\ (call.fn = "_request" /\ call.path # "/login") =>
           (call.auth # NoToken /\ call.auth[3] = "admin")
    /\ (pc = "L97" /\ call.fn = "_request") =>
           (loc.token = call.auth)
    /\ loc.token # NoToken => loc.token[3] = "admin"

\* ------------------------------------------------------------ C29
\* C29: a request of cmd_ban or cmd_delete never names the account the admin
\* is logged in with, whatever the case of the letters typed; and a request of
\* ban, unban, delete, setpass, rename or broadcast is sent only after the
\* confirmation was answered y or yes (case and blanks around it aside); no,
\* an empty answer and Ctrl-C send nothing.
C29_SelfProtectedAndConfirmed ==
    /\ (call.fn = "_request" /\ call.path \in {"/admin/ban", "/admin/delete_user"}) =>
           lower(call.target) # lower(loc.username)
    /\ (call.fn = "_request" /\ call.path \in StateChangingPaths) =>
           /\ call.answer # Interrupt
           /\ lower(strip(call.answer)) \in {"y", "yes"}

\* a ban of another account, confirmed with " Yes", is on its way while the
\* admin is logged in as root
C29_Witness ==
    /\ call.fn = "_request" /\ call.path = "/admin/ban" /\ call.at = "L81"
    /\ loc.username = "root" /\ call.target = "bob"
    /\ call.answer = " Yes"

\* ------------------------------------------------------------ app.py
\* The mail client (src/app.py).  Here pc is the position in main_menu and the
\* function it called, loc holds the dictionary CONFIG with the local
\* variables of the running function, call is the send_request in progress
\* and ret what it returned.
MaxActions == 3

\* CONFIG is a function from the keys it has to their values; what the file
\* client_config.json can hold for each key (lines 61-70)
ConfigKeys == {"token", "username", "password"}
ConfigFiles ==
    LET values == [token |-> {"", "t0"}, username |-> {"", "alice"},
                   password |-> {"pw"}]
        any == UNION {[ks -> {"", "t0", "alice", "pw"}] : ks \in SUBSET ConfigKeys}
    IN  {cfg \in any : \A k \in DOMAIN cfg : cfg[k] \in values[k]}

PyNone == "<None>"
\* dict.get / dict.pop / item assignment
Get(cfg, k) == IF k \in DOMAIN cfg THEN cfg[k] ELSE PyNone
Pop(cfg, k) == [x \in DOMAIN cfg \ {k} |-> cfg[x]]
Put(cfg, k, v) == [x \in DOMAIN cfg \cup {k} |-> IF x = k THEN v ELSE cfg[x]]
Truthy(v) == v # PyNone /\ v # ""

\* variant: a token alone counts as logged in
ensure_logged_in_token_only(cfg) == Truthy(Get(cfg, "token"))

\* lines 95-98
ensure_logged_in(cfg) == Truthy(Get(cfg, "token")) /\ Truthy(Get(cfg, "username"))

\* lines 209-211 and 519
Forget(cfg) == Pop(Pop(Pop(cfg, "token"), "username"), "password")

\* the functions main_menu calls behind require_login_flow, and the
\* endpoints they post to
MailActions ==
    {"action_send", "interactive_read", "action_recover", "action_search",
     "action_change_password", "action_change_username", "action_delete_account",
     "action_view_spam_list", "action_add_spam_sender", "action_remove_spam_sender"}
MailEndpoints ==
    {"/send", "/fetch_mail", "/delete_mail", "/recover_mail", "/add_sender_to_spam",
     "/delete_sender_from_spam", "/search_mail", "/change_password",
     "/change_username", "/delete_account"}

UserInputs == {"", " alice", "bob"}

InitApp ==
    /\ \E cfg \in ConfigFiles :
         loc = [CONFIG |-> cfg, after |-> "menu", typed |-> "", steps |-> 0]
    /\ pc = "menu"
    /\ call = NoCall
    /\ ret = FALSE
    /\ exc = NoExc
    /\ outcome = "none"
    /\ g = g0
    /\ fs = [p \in Paths |-> Absent]
    /\ updateDir = FALSE
    /\ remote = 1
    /\ FLAGS = [no_update |-> FALSE, force_update |-> FALSE]
    /\ prev = prev0
    /\ cycles = 0
    /\ faultsLeft = 0

AppFrame == <<fs, updateDir, remote, FLAGS, exc, g, prev, cycles, faultsLeft>>

\* lines 217-223: the request goes out with the token CONFIG holds
SendRequest(endpoint) ==
    call' = [fn |-> "send_request", at |-> "sent", endpoint |-> endpoint,
             auth |-> Get(loc.CONFIG, "token")]

Answered == call.fn = "send_request" /\ call.at = "return"

\* lines 224-240: (True, resp) when the response says ok, (False, error) for
\* everything else
send_request_return ==
    /\ call.fn = "send_request" /\ call.at = "sent"
    /\ \E ok \in BOOLEAN, token \in {PyNone, "t1"} :
         ret' = [ok |-> ok,
                 token |-> IF ok /\ call.endpoint = "/login" THEN token ELSE PyNone]
    /\ call' = [call EXCEPT !.at = "return"]
    /\ UNCHANGED <<pc, loc, outcome>>
    /\ UNCHANGED AppFrame

\* lines 580-670: one choice of the menus; quit, and a server that cannot be
\* reached (check_server), end the program
main_menu ==
    /\ pc = "menu" /\ call = NoCall
    /\ \E choice \in MailActions \cup {"user_login", "user_register", "user_logout", "quit"} :
         IF choice = "quit" \/ loc.steps >= MaxActions
         THEN pc' = "exited" /\ loc' = loc
         ELSE pc' = choice /\ loc' = [loc EXCEPT !.steps = @ + 1, !.after = "menu"]
    /\ UNCHANGED <<call, ret, outcome>>
    /\ UNCHANGED AppFrame

\* where user_login returns to: the menu, or line 105 of require_login_flow
AfterLogin(cfg) ==
    IF loc.after = "menu" THEN "menu"
    ELSE IF ensure_logged_in(cfg) THEN loc.after \o "_body" ELSE "menu"

\* lines 182-206
user_login ==
    \/ /\ pc = "user_login" /\ call = NoCall
       /\ \E raw \in UserInputs :
            IF strip(raw) = ""
            THEN /\ pc' = AfterLogin(loc.CONFIG)
                 /\ UNCHANGED <<call, loc>>
            ELSE /\ SendRequest("/login")
                 /\ loc' = [loc EXCEPT !.typed = strip(raw)]
                 /\ pc' = "user_login_wait"
       /\ UNCHANGED <<ret, outcome>>
       /\ UNCHANGED AppFrame
    \/ /\ pc = "user_login_wait" /\ Answered
       /\ \E save \in BOOLEAN :
            LET cfg == IF ret.ok /\ Truthy(ret.token)
                       THEN LET c == Put(Put(loc.CONFIG, "username", loc.typed),
                                         "token", ret.token)
                            IN  IF save THEN Put(c, "password", "pw")
                                ELSE Pop(c, "password")
                       ELSE loc.CONFIG
            IN  /\ loc' = [loc EXCEPT !.CONFIG = cfg, !.typed = ""]
                /\ pc' = AfterLogin(cfg)
       /\ call' = NoCall
       /\ ret' = FALSE
       /\ UNCHANGED outcome
       /\ UNCHANGED AppFrame

\* lines 149-180: /register, then /login with the same name and password
user_register ==
    \/ /\ pc = "user_register" /\ call = NoCall
       /\ \E raw \in UserInputs, match \in BOOLEAN :
            IF strip(raw) = "" \/ ~match
            THEN pc' = "menu" /\ UNCHANGED <<call, loc>>
            ELSE /\ SendRequest("/register")
                 /\ loc' = [loc EXCEPT !.typed = strip(raw)]
                 /\ pc' = "user_register_wait"
       /\ UNCHANGED <<ret, outcome>>
       /\ UNCHANGED AppFrame
    \/ /\ pc = "user_register_wait" /\ Answered /\ call.endpoint = "/register"
       /\ IF ret.ok
          THEN SendRequest("/login") /\ pc' = pc /\ loc' = loc
          ELSE call' = NoCall /\ pc' = "menu" /\ loc' = [loc EXCEPT !.typed = ""]
       /\ ret' = FALSE
       /\ UNCHANGED outcome
       /\ UNCHANGED AppFrame
    \/ /\ pc = "user_register_wait" /\ Answered /\ call.endpoint = "/login"
       /\ loc' = [loc EXCEPT
                    !.CONFIG = IF ret.ok /\ Truthy(ret.token)
                               THEN Put(Put(Put(@, "username", loc.typed),
                                            "token", ret.token), "password", "pw")
                               ELSE @,
                    !.typed = ""]
       /\ call' = NoCall
       /\ pc' = "menu"
       /\ ret' = FALSE
       /\ UNCHANGED outcome
       /\ UNCHANGED AppFrame

\* lines 208-214
user_logout ==
    /\ pc = "user_logout" /\ call = NoCall
    /\ loc' = [loc EXCEPT !.CONFIG = Forget(@)]
    /\ pc' = "menu"
    /\ UNCHANGED <<call, ret, outcome>>
    /\ UNCHANGED AppFrame

\* lines 100-106, the first line of every mail and account action:
\* require_login_flow goes on when logged in, else through user_login
Enter(name) ==
    /\ pc = name /\ call = NoCall
    /\ IF ensure_logged_in(loc.CONFIG)
       THEN pc' = name \o "_body" /\ loc' = loc
       ELSE pc' = "user_login" /\ loc' = [loc EXCEPT !.after = name]
    /\ UNCHANGED <<call, ret, outcome>>
    /\ UNCHANGED AppFrame

\* the prompts of an action, then its request; an empty or declined prompt
\* returns to the menu
Body(name, endpoint, prompts) ==
    /\ pc = name \o "_body" /\ call = NoCall
    /\ \E cancel \in (IF prompts THEN BOOLEAN ELSE {FALSE}) :
         IF cancel
         THEN pc' = "menu" /\ call' = call
         ELSE SendRequest(endpoint) /\ pc' = name \o "_wait"
    /\ UNCHANGED <<loc, ret, outcome>>
    /\ UNCHANGED AppFrame

\* the answer is printed; CONFIG becomes cfg when the server said ok
Finish(name, endpoint, cfg) ==
    /\ pc = name \o "_wait" /\ Answered /\ call.endpoint = endpoint
    /\ loc' = [loc EXCEPT !.CONFIG = IF ret.ok THEN cfg ELSE @, !.typed = ""]
    /\ call' = NoCall
    /\ ret' = FALSE
    /\ pc' = "menu"
    /\ UNCHANGED outcome
    /\ UNCHANGED AppFrame

\* a second request of the same action, for a mail of the list just fetched
FollowUp(name, first, endpoints) ==
    /\ pc = name \o "_wait" /\ Answered /\ call.endpoint = first /\ ret.ok
    /\ \E endpoint \in endpoints : SendRequest(endpoint)
    /\ ret' = FALSE
    /\ UNCHANGED <<pc, loc, outcome>>
    /\ UNCHANGED AppFrame

\* lines 242-303
action_send ==
    \/ Enter("action_send")
    \/ Body("action_send", "/send", TRUE)
    \/ Finish("action_send", "/send", loc.CONFIG)

\* lines 305-317 and 319-413: list_folder (behind require_login_flow again),
\* then delete, recover or spam for the mail that was opened
interactive_read ==
    \/ Enter("interactive_read")
    \/ Body("interactive_read", "/fetch_mail", FALSE)
    \/ Finish("interactive_read", "/fetch_mail", loc.CONFIG)
    \/ FollowUp("interactive_read", "/fetch_mail",
            {"/delete_mail", "/recover_mail", "/add_sender_to_spam"})
    \/ \E e \in {"/delete_mail", "/recover_mail", "/add_sender_to_spam"} :
         Finish("interactive_read", e, loc.CONFIG)

\* lines 415-438
action_recover ==
    \/ Enter("action_recover")
    \/ Body("action_recover", "/fetch_mail", FALSE)
    \/ Finish("action_recover", "/fetch_mail", loc.CONFIG)
    \/ FollowUp("action_recover", "/fetch_mail", {"/recover_mail"})
    \/ Finish("action_recover", "/recover_mail", loc.CONFIG)

\* lines 441-466
action_search ==
    \/ Enter("action_search")
    \/ Body("action_search", "/search_mail", TRUE)
    \/ Finish("action_search", "/search_mail", loc.CONFIG)

\* lines 469-486: the saved password follows the change
action_change_password ==
    \/ Enter("action_change_password")
    \/ Body("action_change_password", "/change_password", TRUE)
    \/ Finish("action_change_password", "/change_password",
            IF Truthy(Get(loc.CONFIG, "password"))
            THEN Put(loc.CONFIG, "password", "pw") ELSE loc.CONFIG)

\* lines 488-504
action_change_username ==
    \/ Enter("action_change_username")
    \/ /\ pc = "action_change_username_body" /\ call = NoCall
       /\ \E raw \in UserInputs :
            IF strip(raw) = ""
            THEN pc' = "menu" /\ UNCHANGED <<call, loc>>
            ELSE /\ SendRequest("/change_username")
                 /\ loc' = [loc EXCEPT !.typed = strip(raw)]
                 /\ pc' = "action_change_username_wait"
       /\ UNCHANGED <<ret, outcome>>
       /\ UNCHANGED AppFrame
    \/ Finish("action_change_username", "/change_username",
            Put(loc.CONFIG, "username", loc.typed))

\* lines 506-525: after a deletion the local credentials go and the client exits
action_delete_account ==
    \/ Enter("action_delete_account")
    \/ Body("action_delete_account", "/delete_account", TRUE)
    \/ /\ pc = "action_delete_account_wait" /\ Answered
       /\ loc' = [loc EXCEPT !.CONFIG = IF ret.ok THEN Forget(@) ELSE @]
       /\ pc' = IF ret.ok THEN "exited" ELSE "menu"
       /\ outcome' = IF ret.ok THEN "account_deleted" ELSE outcome
       /\ call' = NoCall
       /\ ret' = FALSE
       /\ UNCHANGED AppFrame

\* lines 528-537
action_view_spam_list ==
    \/ Enter("action_view_spam_list")
    \/ Body("action_view_spam_list", "/fetch_mail", FALSE)
    \/ Finish("action_view_spam_list", "/fetch_mail", loc.CONFIG)

\* lines 539-549
action_add_spam_sender ==
    \/ Enter("action_add_spam_sender")
    \/ Body("action_add_spam_sender", "/add_sender_to_spam", TRUE)
    \/ Finish("action_add_spam_sender", "/add_sender_to_spam", loc.CONFIG)

\* lines 551-561
action_remove_spam_sender ==
    \/ Enter("action_remove_spam_sender")
    \/ Body("action_remove_spam_sender", "/delete_sender_from_spam", TRUE)
    \/ Finish("action_remove_spam_sender", "/delete_sender_from_spam", loc.CONFIG)

NextApp ==
    \/ main_menu
    \/ send_request_return
    \/ user_login
    \/ user_register
    \/ user_logout
    \/ action_send
    \/ interactive_read
    \/ action_recover
    \/ action_search
    \/ action_change_password
    \/ action_change_username
    \/ action_delete_account
    \/ action_view_spam_list
    \/ action_add_spam_sender
    \/ action_remove_spam_sender

SpecApp == InitApp /\ [][NextApp]_vars

\* ------------------------------------------------------------ C30
\* C30: whatever was logged in, registered, logged out and done before, a
\* request of a mail or account action is under way only while CONFIG holds a
\* token and a username, and it carries that token; user_logout, and
\* action_delete_account when the server accepted the deletion, leave CONFIG
\* without token, username and password, so that ensure_logged_in is false.
C30_SessionGate ==
    /\ []((call.fn = "send_request" /\ call.endpoint \in MailEndpoints) =>
            /\ Truthy(Get(loc.CONFIG, "token"))
            /\ Truthy(Get(loc.CONFIG, "username"))
            /\ call.auth = loc.CONFIG["token"])
    /\ []((pc = "exited" /\ outcome = "account_deleted") =>
            /\ DOMAIN loc.CONFIG \cap ConfigKeys = {}
            /\ ~ensure_logged_in(loc.CONFIG))
    /\ [][pc = "user_logout" =>
            /\ DOMAIN loc'.CONFIG \cap ConfigKeys = {}
            /\ ~ensure_logged_in(loc'.CONFIG)]_vars

\* after an earlier action, the account was deleted and the client has left
\* with nothing in CONFIG
C30_Witness ==
    /\ pc = "exited" /\ outcome = "account_deleted"
    /\ loc.steps >= 2
    /\ DOMAIN loc.CONFIG = {}

====
